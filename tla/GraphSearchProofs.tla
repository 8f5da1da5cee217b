------------------------- MODULE GraphSearchProofs -------------------------
(***************************************************************************)
(* Proofs about GraphSearch, for every group, graph, beam width, number of *)
(* results and assignment of distances.                                    *)
(***************************************************************************)
EXTENDS GraphSearch, LeastNumber, FiniteSetTheorems, TLAPS

BP == INSTANCE PQueueProofs WITH Vid <- Local

Elems(s) == {s[k] : k \in 1 .. Len(s)}

\* The state of the search proper: types, and what each place of the loop leaves empty.
LoopInv ==
    /\ single \in SingleGraphs /\ shared \in SharedGraphs
    /\ pc \in {"seed", "pop", "gather", "offer", "done"}
    /\ todo \in Seq(Nat) /\ keep \in Seq(Local)
    /\ offered \in SUBSET Local
    /\ pc \in {"seed", "pop", "done"} => todo = <<>> /\ keep = <<>>
    /\ pc = "offer" => todo = <<>>
    /\ pc = "seed" => offered = {} /\ pushed = {} /\ opened = {}

\* The visited set never claims a vertex that was not offered or kept.
FilterInv ==
    /\ visited = [capacity |-> visited.capacity, seen |-> visited.seen]
    /\ visited.capacity \in Nat \ {0}
    /\ DOMAIN visited.seen = 0 .. visited.capacity - 1
    /\ \A v \in Local : Contains(visited, v) => v \in offered \cup Elems(keep)

\* No neighbour of an expanded vertex is lost on the way to the beam.
FrontierInv ==
    \A u \in opened : \A w \in Reached(u) :
        w \in offered \/ w \in Elems(keep) \/ Row[w] \in Elems(todo)

\* Whatever was offered is settled, and stays so while the beam moves.
SettledInv == \A w \in offered : Settled(w)

SearchInv == LoopInv /\ FilterInv /\ FrontierInv /\ SettledInv /\ BP!QueueInv

-----------------------------------------------------------------------------
\* Positions are naturals.
LEMMA LocalIsNat == Local \in SUBSET Nat
<1>1. Cardinality(Local) \in Nat
  BY GroupAssumption, FS_CardinalityType
<1>. QED
  BY <1>1, GroupAssumption

\* hash_subgroup::pos of a vector of the group is its position.
LEMMA PosOfMember == \A i \in Local : InGroup(Row[i]) /\ Pos(Row[i]) = i
  BY GroupAssumption DEF InGroup, Pos

\* pos of a vector that carries the label is a position of the group.
LEMMA PosInGroup == ASSUME NEW g, InGroup(g) PROVE Pos(g) \in Local /\ Row[Pos(g)] = g
  BY DEF InGroup, Pos

\* Remembering an identifier adds no other one to the visited set.
LEMMA RememberSound ==
  ASSUME NEW f, NEW t \in Local, NEW v \in Local,
         f.capacity \in Nat \ {0}, DOMAIN f.seen = 0 .. f.capacity - 1,
         f = [capacity |-> f.capacity, seen |-> f.seen]
  PROVE  /\ Remember(f, t) = [capacity |-> f.capacity, seen |-> Remember(f, t).seen]
         /\ DOMAIN Remember(f, t).seen = DOMAIN f.seen
         /\ Contains(Remember(f, t), v) => v = t \/ Contains(f, v)
<1>1. t \in Nat /\ v \in Nat
  BY LocalIsNat
<1>2. GetHash(f, t) \in DOMAIN f.seen /\ GetHash(f, v) \in DOMAIN f.seen
  BY <1>1 DEF GetHash
<1>3. /\ Remember(f, t).capacity = f.capacity
      /\ Remember(f, t) = [capacity |-> f.capacity, seen |-> Remember(f, t).seen]
  BY DEF Remember
<1>4. GetHash(Remember(f, t), v) = GetHash(f, v)
  BY <1>3 DEF GetHash
<1>5. Remember(f, t).seen = [f.seen EXCEPT ![GetHash(f, t)] = t]
  BY DEF Remember
<1>. QED
  BY <1>2, <1>3, <1>4, <1>5 DEF Contains

\* What an append and a removal do to the elements of a sequence.
LEMMA ElemsAppend ==
  ASSUME NEW S, NEW s \in Seq(S), NEW x \in S
  PROVE  Append(s, x) \in Seq(S) /\ Elems(Append(s, x)) = Elems(s) \cup {x}
<1>1. /\ Append(s, x) \in Seq(S) /\ Len(s) \in Nat /\ Len(Append(s, x)) = Len(s) + 1
      /\ \A i \in 1 .. Len(s) : Append(s, x)[i] = s[i]
      /\ Append(s, x)[Len(s) + 1] = x
  OBVIOUS
<1>2. ASSUME NEW e \in Elems(Append(s, x)) PROVE e \in Elems(s) \cup {x}
  <2>1. PICK k \in 1 .. Len(s) + 1 : e = Append(s, x)[k]
    BY <1>1 DEF Elems
  <2>2. CASE k = Len(s) + 1
    BY <1>1, <2>1, <2>2
  <2>3. CASE k \in 1 .. Len(s)
    BY <1>1, <2>1, <2>3 DEF Elems
  <2>. QED
    BY <1>1, <2>2, <2>3
<1>3. ASSUME NEW e \in Elems(s) \cup {x} PROVE e \in Elems(Append(s, x))
  <2>1. CASE e = x
    BY <1>1, <2>1 DEF Elems
  <2>2. CASE e \in Elems(s)
    <3>1. PICK k \in 1 .. Len(s) : e = s[k]
      BY <2>2 DEF Elems
    <3>2. k \in 1 .. Len(Append(s, x)) /\ e = Append(s, x)[k]
      BY <1>1, <3>1
    <3>. QED
      BY <3>2 DEF Elems
  <2>. QED
    BY <1>3, <2>1, <2>2
<1>. QED
  BY <1>1, <1>2, <1>3

\* The elements of a sequence are its head and those of its tail.
LEMMA ElemsHeadTail ==
  ASSUME NEW S, NEW s \in Seq(S), s # <<>>
  PROVE  /\ Head(s) \in S /\ Tail(s) \in Seq(S)
         /\ Elems(s) = {Head(s)} \cup Elems(Tail(s))
<1>1. /\ Len(s) \in Nat \ {0} /\ Len(Tail(s)) = Len(s) - 1
      /\ \A i \in 1 .. Len(s) - 1 : Tail(s)[i] = s[i + 1]
      /\ Head(s) = s[1] /\ Tail(s) \in Seq(S) /\ Head(s) \in S
  OBVIOUS
<1>2. ASSUME NEW e \in Elems(s) PROVE e \in {Head(s)} \cup Elems(Tail(s))
  <2>1. PICK k \in 1 .. Len(s) : e = s[k]
    BY DEF Elems
  <2>2. CASE k = 1
    BY <1>1, <2>1, <2>2
  <2>3. CASE k # 1
    <3>1. k - 1 \in 1 .. Len(Tail(s)) /\ e = Tail(s)[k - 1]
      BY <1>1, <2>1, <2>3
    <3>. QED
      BY <3>1 DEF Elems
  <2>. QED
    BY <2>2, <2>3
<1>3. ASSUME NEW e \in {Head(s)} \cup Elems(Tail(s)) PROVE e \in Elems(s)
  <2>1. CASE e = Head(s)
    BY <1>1, <2>1 DEF Elems
  <2>2. CASE e \in Elems(Tail(s))
    <3>1. PICK k \in 1 .. Len(Tail(s)) : e = Tail(s)[k]
      BY <2>2 DEF Elems
    <3>2. k + 1 \in 1 .. Len(s) /\ e = s[k + 1]
      BY <1>1, <3>1
    <3>. QED
      BY <3>2 DEF Elems
  <2>. QED
    BY <1>3, <2>1, <2>2
<1>. QED
  BY <1>1, <1>2, <1>3

\* A function on 1..n is a sequence of length n.
LEMMA FunctionIsSeq ==
  ASSUME NEW S, NEW n \in Nat, NEW f \in [1 .. n -> S]
  PROVE  f \in Seq(S) /\ Len(f) = n
  OBVIOUS

\* A sequence holds members of its set at 1 to its length.
LEMMA SeqMembers ==
  ASSUME NEW S, NEW s \in Seq(S)
  PROVE  DOMAIN s = 1 .. Len(s) /\ Len(s) \in Nat /\ \A k \in DOMAIN s : s[k] \in S
OBVIOUS

\* The elements of a concatenation.
LEMMA ElemsConcat ==
  ASSUME NEW S, NEW s \in Seq(S), NEW t \in Seq(S)
  PROVE  s \o t \in Seq(S) /\ Elems(s) \subseteq Elems(s \o t) /\ Elems(t) \subseteq Elems(s \o t)
<1>1. /\ s \o t \in Seq(S) /\ Len(s) \in Nat /\ Len(t) \in Nat
      /\ Len(s \o t) = Len(s) + Len(t)
      /\ \A i \in 1 .. Len(s) : (s \o t)[i] = s[i]
      /\ \A i \in 1 .. Len(t) : (s \o t)[Len(s) + i] = t[i]
  OBVIOUS
<1>2. ASSUME NEW e \in Elems(s) PROVE e \in Elems(s \o t)
  <2>1. PICK k \in 1 .. Len(s) : e = s[k]
    BY DEF Elems
  <2>2. k \in 1 .. Len(s \o t) /\ e = (s \o t)[k]
    BY <1>1, <2>1
  <2>. QED
    BY <2>2 DEF Elems
<1>3. ASSUME NEW e \in Elems(t) PROVE e \in Elems(s \o t)
  <2>1. PICK k \in 1 .. Len(t) : e = t[k]
    BY DEF Elems
  <2>2. Len(s) + k \in 1 .. Len(s \o t) /\ e = (s \o t)[Len(s) + k]
    BY <1>1, <2>1
  <2>. QED
    BY <2>2 DEF Elems
<1>. QED
  BY <1>1, <1>2, <1>3
-----------------------------------------------------------------------------
\* What the proofs about the queue assume of its constants.
LEMMA QueuePremises == BP!LAssumption /\ BP!DistAssumption
  BY LAssumption, GroupAssumption DEF BP!LAssumption, BP!DistAssumption

\* The queue operators of GraphSearch are those of the proofs about the queue.
LEMMA SameQueue ==
  /\ BP!Slots = Slots /\ BP!Blank = Blank /\ BP!NewQueue = NewQueue
  /\ \A x : BP!HasUnexpanded(x) = HasUnexpanded(x) /\ BP!TailDist(x) = TailDist(x) /\ BP!Live(x) = Live(x)
  /\ \A x, v, d : BP!Push(x, v, d) = Push(x, v, d)
  /\ \A x : BP!SetFrontExpanded(x) = SetFrontExpanded(x)
<1>1. /\ BP!Slots = Slots /\ BP!Blank = Blank /\ BP!NewQueue = NewQueue
      /\ \A x : BP!HasUnexpanded(x) = HasUnexpanded(x) /\ BP!TailDist(x) = TailDist(x) /\ BP!Live(x) = Live(x)
  BY DEF BP!Slots, Slots, BP!Blank, Blank, BP!NewQueue, NewQueue, BP!HasUnexpanded, HasUnexpanded,
         BP!TailDist, TailDist, BP!Live, Live
<1>2. \A x, d : BP!LowerBound(x, d) = LowerBound(x, d)
  BY DEF BP!LowerBound, LowerBound, BP!IsLowerBound, IsLowerBound
<1>3. \A x, l, v, d : BP!InsertAt(x, l, v, d) = InsertAt(x, l, v, d)
  BY DEF BP!InsertAt, InsertAt, BP!Shifted, Shifted, BP!Slots, Slots
<1>4. \A x, v, d : BP!Push(x, v, d) = Push(x, v, d)
  BY <1>1, <1>2, <1>3 DEF BP!Push, Push
<1>5. \A s, n, i : BP!FirstUnexpanded(s, n, i) = FirstUnexpanded(s, n, i)
  BY DEF BP!FirstUnexpanded, FirstUnexpanded
<1>6. \A x : BP!SetFrontExpanded(x) = SetFrontExpanded(x)
  BY <1>5 DEF BP!SetFrontExpanded, SetFrontExpanded
<1>. QED
  BY <1>1, <1>4, <1>6
-----------------------------------------------------------------------------
\* What the queue's inductive invariant says of the beam, in the words of GraphSearch.
LEMMA BeamFacts ==
  ASSUME BP!QueueInv
  PROVE  /\ q \in BP!QueueType /\ q.size \in 0 .. L /\ L \in Nat \ {0} /\ q.next_idx <= q.size
         /\ \A i \in 0 .. q.size - 1 : /\ q.slot[i].vid \in Local /\ q.slot[i].dist \in Nat
                                      /\ q.slot[i].dist = DistOf[q.slot[i].vid]
         /\ \A i, j \in 0 .. q.size - 1 : i < j => q.slot[i].dist <= q.slot[j].dist
<1>1. q \in BP!QueueType /\ q.next_idx <= q.size
  BY DEF BP!QueueInv, BP!TypeOK, BP!QueueType, BP!CursorsAtTwoNearestOpen
<1>2. q.size \in 0 .. L /\ L \in Nat \ {0}
  BY <1>1, LAssumption DEF BP!QueueType
<1>. QED
  BY <1>1, <1>2, GroupAssumption DEF BP!QueueInv, BP!SortedByDistance, BP!Live

\* A push settles the vertex pushed and unsettles none: what it evicts is no nearer
\* than the new tail, and the entry behind the results only gets nearer.
LEMMA PushSettles ==
  ASSUME BP!QueueInv, NEW v \in Local, q' = Push(q, v, DistOf[v])
  PROVE  Settled(v)' /\ \A w \in Local : Settled(w) => Settled(w)'
<1>1. /\ q \in BP!QueueType /\ q.size \in 0 .. L /\ L \in Nat \ {0} /\ q.next_idx <= q.size
      /\ K \in Nat \ {0} /\ K <= L
      /\ \A w \in Local : DistOf[w] \in Nat
  BY BeamFacts, KAssumption, GroupAssumption
<1>2. /\ \A i \in 0 .. q.size - 1 : /\ q.slot[i].vid \in Local /\ q.slot[i].dist \in Nat
                                   /\ q.slot[i].dist = DistOf[q.slot[i].vid]
      /\ \A i, j \in 0 .. q.size - 1 : i < j => q.slot[i].dist <= q.slot[j].dist
  BY BeamFacts
<1>3. q' = BP!Push(q, v, DistOf[v])
  BY SameQueue
<1>4. CASE /\ q' = q
           /\ \/ q.size = L /\ DistOf[v] > TailDist(q)
              \/ \E i \in 0 .. q.size - 1 : q.slot[i].vid = v
  <2>1. \A w \in Local : Settled(w) => Settled(w)'
    BY <1>4 DEF Settled, Queued, TailDist, Live
  <2>2. CASE q.size = L /\ DistOf[v] > TailDist(q)
    <3>1. TailDist(q) \in Nat
      BY <1>1, <1>2, <2>2 DEF TailDist
    <3>2. Settled(v)
      BY <1>1, <2>2, <3>1 DEF Settled
    <3>. QED
      BY <2>1, <3>2
  <2>3. CASE \E i \in 0 .. q.size - 1 : q.slot[i].vid = v
    BY <2>1, <2>3 DEF Settled, Queued, Live
  <2>. QED
    BY <1>4, <2>1, <2>2, <2>3
<1>5. ASSUME NEW loc \in 0 .. q.size, loc < L, BP!IsLowerBound(q, DistOf[v], loc),
             q' = BP!InsertAt(q, loc, v, DistOf[v])
      PROVE  Settled(v)' /\ \A w \in Local : Settled(w) => Settled(w)'
  <2>1. /\ q'.size = IF q.size < L THEN q.size + 1 ELSE q.size
        /\ q'.slot[loc] = [vid |-> v, dist |-> DistOf[v], expanded |-> FALSE]
        /\ \A i \in 0 .. loc - 1 : q'.slot[i] = q.slot[i]
        /\ \A i \in loc + 1 .. q'.size - 1 :
              i - 1 \in 0 .. q.size - 1 /\ q'.slot[i] = q.slot[i - 1]
    BY <1>1, <1>5, QueuePremises, BP!InsertFields
  <2>2. /\ loc < q'.size /\ q'.size \in 0 .. L
        /\ loc < q.size => DistOf[v] <= q.slot[loc].dist
    BY <1>1, <1>5, <2>1 DEF BP!IsLowerBound
  <2>3. Settled(v)'
    <3>1. v \in Queued'
      BY <1>1, <2>1, <2>2 DEF Queued, Live
    <3>. QED
      BY <3>1 DEF Settled
  <2>4. \A i \in 0 .. q.size - 1 : i < q'.size => q'.slot[i].dist <= q.slot[i].dist
    <3>1. SUFFICES ASSUME NEW i \in 0 .. q.size - 1, i < q'.size
                   PROVE  q'.slot[i].dist <= q.slot[i].dist
      OBVIOUS
    <3>2. CASE i < loc
      BY <1>1, <1>2, <2>1, <3>2
    <3>3. CASE i = loc
      BY <1>1, <1>2, <2>1, <2>2, <3>3
    <3>4. CASE i > loc
      BY <1>1, <1>2, <2>1, <2>2, <3>1, <3>4
    <3>. QED
      BY <1>1, <3>2, <3>3, <3>4
  <2>5. \A i \in 0 .. q'.size - 1 : q'.slot[i].dist \in Nat
    BY <1>1, <1>2, <2>1, <2>2
  <2>6. ASSUME NEW w \in Local, Settled(w) PROVE Settled(w)'
    <3>1. CASE w \in Queued
      <4>1. PICK i \in 0 .. q.size - 1 : q.slot[i].vid = w
        BY <3>1 DEF Queued, Live
      <4>2. CASE i < loc
        <5>1. i \in 0 .. q'.size - 1 /\ q'.slot[i].vid = w
          BY <1>1, <2>1, <2>2, <4>1, <4>2
        <5>. QED
          BY <5>1 DEF Settled, Queued, Live
      <4>3. CASE i >= loc /\ i + 1 < q'.size
        <5>1. i + 1 \in 0 .. q'.size - 1 /\ q'.slot[i + 1].vid = w
          <6>1. i + 1 \in loc + 1 .. q'.size - 1 /\ (i + 1) - 1 = i
            BY <1>1, <2>2, <4>3
          <6>2. q'.slot[i + 1] = q.slot[(i + 1) - 1]
            BY <2>1, <6>1
          <6>. QED
            BY <4>1, <6>1, <6>2
        <5>. QED
          BY <5>1 DEF Settled, Queued, Live
      <4>4. CASE i >= loc /\ i + 1 >= q'.size
        <5>1. q.size = L /\ q'.size = L /\ i = L - 1
          BY <1>1, <2>1, <4>4
        <5>2. q'.slot[L - 1].dist <= q.slot[L - 1].dist
          BY <1>1, <2>4, <5>1
        <5>3. DistOf[w] = q.slot[L - 1].dist
          BY <1>2, <4>1, <5>1
        <5>. QED
          BY <5>1, <5>2, <5>3 DEF Settled, TailDist
      <4>. QED
        BY <1>1, <2>2, <4>2, <4>3, <4>4
    <3>2. CASE q.size = L /\ DistOf[w] >= TailDist(q)
      <4>1. q'.size = L /\ q'.slot[L - 1].dist <= q.slot[L - 1].dist
        BY <1>1, <2>1, <2>4, <3>2
      <4>2. q'.slot[L - 1].dist \in Nat /\ q.slot[L - 1].dist \in Nat /\ DistOf[w] \in Nat
        BY <1>1, <1>2, <2>5, <3>2, <4>1
      <4>3. DistOf[w] >= q'.slot[L - 1].dist
        BY <3>2, <4>1, <4>2 DEF TailDist
      <4>. QED
        BY <4>1, <4>3 DEF Settled, TailDist
    <3>3. CASE q.size > K /\ 100 * DistOf[w] > 135 * q.slot[K].dist
      <4>1. q'.size > K /\ q'.slot[K].dist <= q.slot[K].dist
        BY <1>1, <2>1, <2>4, <3>3
      <4>2. q'.slot[K].dist \in Nat /\ q.slot[K].dist \in Nat /\ DistOf[w] \in Nat
        BY <1>1, <1>2, <2>2, <2>5, <3>3, <4>1
      <4>3. 100 * DistOf[w] > 135 * q'.slot[K].dist
        BY <3>3, <4>1, <4>2
      <4>. QED
        BY <4>1, <4>3 DEF Settled
    <3>. QED
      BY <2>6, <3>1, <3>2, <3>3 DEF Settled
  <2>. QED
    BY <2>3, <2>6
<1>. QED
  BY <1>1, <1>3, <1>4, <1>5, QueuePremises, BP!PushCases, SameQueue

\* Expanding the front moves no entry.
LEMMA ExpandSettles ==
  ASSUME BP!QueueInv, HasUnexpanded(q), q' = SetFrontExpanded(q)
  PROVE  /\ q.slot[q.next_idx].vid \in Local
         /\ \A w \in Local : Settled(w) => Settled(w)'
<1>1. /\ q \in BP!QueueType /\ q.size \in 0 .. L /\ L \in Nat \ {0}
      /\ q.next_idx \in 0 .. L /\ q.slot \in [Slots -> BP!Entry]
      /\ q.next_idx2 <= q.size /\ Slots = 0 .. L
      /\ K \in Nat \ {0}
  BY BeamFacts, SameQueue, KAssumption
     DEF BP!QueueInv, BP!CursorsAtTwoNearestOpen, BP!QueueType, Slots
<1>2. q.next_idx \in 0 .. q.size - 1
  BY <1>1 DEF HasUnexpanded
<1>3. q.slot[q.next_idx].vid \in Local
  BY <1>2, BeamFacts
<1>4. /\ q'.size = q.size
      /\ q'.slot[q.next_idx] = [q.slot[q.next_idx] EXCEPT !.expanded = TRUE]
      /\ \A i \in Slots \ {q.next_idx} : q'.slot[i] = q.slot[i]
  BY <1>1, SameQueue, QueuePremises, BP!ExpandFields
<1>5. \A i \in 0 .. q.size - 1 : q'.slot[i].vid = q.slot[i].vid /\ q'.slot[i].dist = q.slot[i].dist
  <2>1. q.slot[q.next_idx] = [vid |-> q.slot[q.next_idx].vid, dist |-> q.slot[q.next_idx].dist,
                              expanded |-> q.slot[q.next_idx].expanded]
    BY <1>1 DEF BP!Entry
  <2>2. q'.slot[q.next_idx].vid = q.slot[q.next_idx].vid /\ q'.slot[q.next_idx].dist = q.slot[q.next_idx].dist
    BY <1>4, <2>1
  <2>3. \A i \in 0 .. q.size - 1 : i # q.next_idx => q'.slot[i] = q.slot[i]
    BY <1>1, <1>4
  <2>. QED
    BY <2>2, <2>3
<1>6. ASSUME NEW w \in Local, Settled(w) PROVE Settled(w)'
  <2>1. CASE w \in Queued
    BY <1>4, <1>5, <2>1 DEF Settled, Queued, Live
  <2>2. CASE q.size = L /\ DistOf[w] >= TailDist(q)
    BY <1>1, <1>4, <1>5, <2>2 DEF Settled, TailDist
  <2>3. CASE q.size > K /\ 100 * DistOf[w] > 135 * q.slot[K].dist
    BY <1>1, <1>4, <1>5, <2>3 DEF Settled
  <2>. QED
    BY <1>6, <2>1, <2>2, <2>3 DEF Settled
<1>. QED
  BY <1>3, <1>6
-----------------------------------------------------------------------------
\* The visited set is never empty, and has more slots than it was made for
\* (hash_table.hpp:26-28).
LEMMA CapacityAbove ==
  VisitedSize \in Nat \ {0} /\ CapacityFor(VisitedSize) \in Nat \ {0} /\ CapacityFor(VisitedSize) > VisitedSize
<1>1. VisitedSize \in Nat \ {0}
  <2>1. Cardinality(Local) \in Nat \ {0}
    <3>1. Cardinality(Local) \in Nat
      BY GroupAssumption, FS_CardinalityType
    <3>2. Local # {} /\ Local = 0 .. Cardinality(Local) - 1
      BY GroupAssumption
    <3>. QED
      BY <3>1, <3>2
  <2>2. PICK l \in Nat \ {0} : l = L
    BY LAssumption
  <2>3. l * l \in Nat \ {0}
    OBVIOUS
  <2>. QED
    BY <2>1, <2>2, <2>3 DEF VisitedSize
<1>2. PICK n \in Nat \ {0} : n = VisitedSize
  BY <1>1
<1>3. /\ Pow2[0] = 1 /\ \A k \in Nat : Pow2[k + 1] = 2 * Pow2[k]
      /\ \A k \in Nat : Pow2[k] \in Nat /\ Pow2[k] > k
  <2>1. PICK P : P = CHOOSE h : h = [k \in Nat |-> IF k = 0 THEN 1 ELSE 2 * h[k - 1]]
    OBVIOUS
  <2>2. Pow2 = P
    BY <2>1 DEF Pow2
  <2>. QED
    BY <2>1, <2>2, PowersExist
<1>4. PICK P : P = Pow2
  OBVIOUS
<1>5. \E e \in 0 .. n : P[e] <= n /\ n < P[e + 1]
  BY <1>3, <1>4, LogarithmExists
<1>6. PICK e : e = CHOOSE x \in 0 .. n : P[x] <= n /\ n < P[x + 1]
  OBVIOUS
<1>7. e \in 0 .. n /\ n < P[e + 1]
  BY <1>5, <1>6
<1>8. e = Lg(n)
  BY <1>4, <1>6 DEF Lg
<1>9. CapacityFor(n) = P[e + 1]
  BY <1>4, <1>8 DEF CapacityFor
<1>10. P[e + 1] \in Nat
  <2>1. e + 1 \in Nat
    BY <1>7
  <2>. QED
    BY <1>3, <1>4, <2>1
<1>. QED
  BY <1>1, <1>2, <1>7, <1>9, <1>10

\* The search starts with the invariant.
LEMMA InitSearchInv == Init => SearchInv
<1> SUFFICES ASSUME Init PROVE SearchInv
  OBVIOUS
<1>1. BP!Init
  BY SameQueue DEF Init, BP!Init
<1>2. BP!QueueInv
  BY <1>1, QueuePremises, BP!InitQueueInv
<1>3. LoopInv
  BY DEF Init, LoopInv
<1>4. FilterInv
  <2>1. /\ visited = [capacity |-> CapacityFor(VisitedSize),
                      seen |-> [h \in 0 .. CapacityFor(VisitedSize) - 1 |-> -1]]
        /\ CapacityFor(VisitedSize) \in Nat \ {0}
    BY CapacityAbove DEF Init, NewFilter
  <2>2. /\ visited = [capacity |-> visited.capacity, seen |-> visited.seen]
        /\ visited.capacity \in Nat \ {0}
        /\ visited.seen = [h \in 0 .. visited.capacity - 1 |-> -1]
    BY <2>1
  <2>3. ASSUME NEW v \in Local, Contains(visited, v) PROVE FALSE
    <3>1. v \in Nat
      BY LocalIsNat
    <3>2. GetHash(visited, v) \in 0 .. visited.capacity - 1
      BY <2>2, <3>1 DEF GetHash
    <3>3. visited.seen[GetHash(visited, v)] = -1
      BY <2>2, <3>2
    <3>. QED
      BY <2>3, <3>1, <3>3 DEF Contains
  <2>. QED
    BY <2>2, <2>3 DEF FilterInv
<1>5. FrontierInv /\ SettledInv
  BY DEF Init, FrontierInv, SettledInv
<1>. QED
  BY <1>2, <1>3, <1>4, <1>5 DEF SearchInv

\* Seeding is the beam's first push.
LEMMA SeedKeepsInv == ASSUME SearchInv, Seed PROVE SearchInv' /\ BP!PushAny
<1>1. Start \in Local
  BY GroupAssumption, PosInGroup DEF Start, InGroup
<1>2. /\ pc = "seed" /\ q' = Push(q, Start, DistOf[Start]) /\ visited' = Remember(visited, Start)
      /\ offered' = {Start} /\ pushed' = {Start} /\ pc' = "pop"
      /\ single' = single /\ shared' = shared /\ todo' = todo /\ keep' = keep /\ opened' = opened
  BY DEF Seed
<1>3. offered = {} /\ pushed = {} /\ opened = {} /\ todo = <<>> /\ keep = <<>>
  BY <1>2 DEF SearchInv, LoopInv
<1>4. BP!PushAny
  BY <1>1, <1>2, <1>3, SameQueue DEF BP!PushAny
<1>5. BP!QueueInv'
  BY <1>4, QueuePremises, BP!PushKeepsQueueInv DEF SearchInv
<1>6. LoopInv'
  BY <1>1, <1>2, <1>3 DEF SearchInv, LoopInv
<1>7. FilterInv'
  <2>1. /\ visited' = [capacity |-> visited.capacity, seen |-> visited'.seen]
        /\ DOMAIN visited'.seen = DOMAIN visited.seen
        /\ \A v \in Local : Contains(visited', v) => v = Start \/ Contains(visited, v)
    BY <1>1, <1>2, RememberSound DEF SearchInv, FilterInv
  <2>. QED
    BY <1>2, <1>3, <2>1 DEF SearchInv, FilterInv, Elems
<1>8. FrontierInv'
  BY <1>2, <1>3 DEF FrontierInv
<1>9. SettledInv'
  BY <1>1, <1>2, PushSettles DEF SearchInv, SettledInv
<1>. QED
  BY <1>4, <1>5, <1>6, <1>7, <1>8, <1>9 DEF SearchInv

\* Popping the front puts all its neighbours on the list of vectors to look at.
LEMMA PopKeepsInv == ASSUME SearchInv, PopFront PROVE SearchInv' /\ BP!ExpandFront
<1> DEFINE u == q.slot[q.next_idx].vid
           mine == [k \in DOMAIN single[u] |-> Row[single[u][k]]]
<1>1. /\ pc = "pop" /\ HasUnexpanded(q) /\ q' = SetFrontExpanded(q)
      /\ todo' = mine \o shared[Row[u]] /\ opened' = opened \cup {u}
      /\ keep' = <<>> /\ pc' = "gather"
      /\ single' = single /\ shared' = shared /\ visited' = visited
      /\ offered' = offered /\ pushed' = pushed
  BY DEF PopFront
<1>2. u \in Local /\ \A w \in Local : Settled(w) => Settled(w)'
  BY <1>1, ExpandSettles DEF SearchInv
<1>3. BP!ExpandFront
  BY <1>1, SameQueue DEF BP!ExpandFront
<1>4. BP!QueueInv'
  BY <1>3, QueuePremises, BP!ExpandKeepsQueueInv DEF SearchInv
<1>5. single[u] \in Seq(Local) /\ shared[Row[u]] \in Seq(Nat)
  BY <1>2, GraphAssumption DEF SearchInv, LoopInv
<1>6. /\ DOMAIN single[u] = 1 .. Len(single[u]) /\ Len(single[u]) \in Nat
      /\ \A k \in DOMAIN single[u] : single[u][k] \in Local
      /\ DOMAIN shared[Row[u]] = 1 .. Len(shared[Row[u]])
  BY <1>5, SeqMembers
<1>7. mine \in Seq(Nat) /\ Len(mine) = Len(single[u])
  <2>1. \A k \in 1 .. Len(single[u]) : Row[single[u][k]] \in Nat
    BY <1>6, GroupAssumption
  <2>2. mine \in [1 .. Len(single[u]) -> Nat]
    BY <1>6, <2>1
  <2> HIDE DEF mine
  <2>. QED
    BY <1>6, <2>2, FunctionIsSeq
<1>8. todo' \in Seq(Nat) /\ Elems(mine) \subseteq Elems(todo') /\ Elems(shared[Row[u]]) \subseteq Elems(todo')
  BY <1>1, <1>5, <1>7, ElemsConcat
<1>9. \A w \in Reached(u) : Row[w] \in Elems(todo')
  <2> SUFFICES ASSUME NEW w \in Reached(u) PROVE Row[w] \in Elems(todo')
    OBVIOUS
  <2>1. CASE w \in {single[u][k] : k \in DOMAIN single[u]}
    <3>1. PICK k \in 1 .. Len(mine) : w = single[u][k]
      BY <1>6, <1>7, <2>1
    <3>2. mine[k] = Row[w]
      BY <1>6, <1>7, <3>1
    <3>. QED
      BY <1>8, <3>2 DEF Elems
  <2>2. CASE \E k \in DOMAIN shared[Row[u]] : shared[Row[u]][k] = Row[w]
    BY <1>6, <1>8, <2>2 DEF Elems
  <2>. QED
    BY <2>1, <2>2 DEF Reached
<1> HIDE DEF u, mine
<1>10. LoopInv'
  BY <1>1, <1>8 DEF SearchInv, LoopInv
<1>11. FilterInv'
  <2>1. keep = <<>>
    BY <1>1 DEF SearchInv, LoopInv
  <2>. QED
    BY <1>1, <2>1 DEF SearchInv, FilterInv
<1>12. FrontierInv'
  <2>1. todo = <<>> /\ keep = <<>>
    BY <1>1 DEF SearchInv, LoopInv
  <2>2. Elems(todo) = {} /\ Elems(keep) = {}
    BY <2>1 DEF Elems
  <2>3. \A x : Reached(x)' = Reached(x)
    BY <1>1 DEF Reached
  <2>4. ASSUME NEW x \in opened', NEW w \in Reached(x)
        PROVE  w \in offered' \/ Row[w] \in Elems(todo')
    <3>1. CASE x \in opened
      BY <1>1, <2>2, <2>4, <3>1 DEF SearchInv, FrontierInv
    <3>2. CASE x = u
      BY <1>9, <2>4, <3>2
    <3>. QED
      BY <1>1, <2>4, <3>1, <3>2
  <2>. QED
    BY <2>3, <2>4 DEF FrontierInv
<1>13. SettledInv'
  BY <1>1, <1>2 DEF SearchInv, SettledInv, LoopInv
<1>. QED
  BY <1>3, <1>4, <1>10, <1>11, <1>12, <1>13 DEF SearchInv
\* Gathering moves a vector of the group from the list to the candidates, unless it
\* was offered or kept before.
LEMMA GatherKeepsInv == ASSUME SearchInv, Gather PROVE SearchInv'
<1> DEFINE g == Head(todo)
           v == Pos(g)
<1>1. /\ pc = "gather" /\ todo # <<>> /\ todo' = Tail(todo)
      /\ IF ~ InGroup(g) \/ Contains(visited, v)
         THEN visited' = visited /\ keep' = keep
         ELSE visited' = Remember(visited, v) /\ keep' = Append(keep, v)
      /\ single' = single /\ shared' = shared /\ pc' = pc /\ q' = q
      /\ offered' = offered /\ pushed' = pushed /\ opened' = opened
  BY DEF Gather
<1>2. /\ todo \in Seq(Nat) /\ keep \in Seq(Local)
      /\ g \in Nat /\ todo' \in Seq(Nat) /\ Elems(todo) = {g} \cup Elems(todo')
  BY <1>1, ElemsHeadTail DEF SearchInv, LoopInv
<1>3. BP!QueueInv' /\ SettledInv'
  BY <1>1 DEF SearchInv, SettledInv, Settled, Queued, BP!QueueInv, BP!TypeOK,
     BP!CursorsAtTwoNearestOpen, BP!SortedByDistance, BP!Live, BP!Open, TailDist, Live
<1>4. \A x : Reached(x)' = Reached(x)
  BY <1>1 DEF Reached
<1> HIDE DEF g
<1>5. CASE ~ InGroup(g) \/ Contains(visited, v)
  <2>1. visited' = visited /\ keep' = keep
    BY <1>1, <1>5
  <2>2. LoopInv' /\ FilterInv'
    BY <1>1, <1>2, <2>1 DEF SearchInv, LoopInv, FilterInv
  <2>3. ASSUME NEW x \in opened, NEW w \in Reached(x)
        PROVE  w \in offered \/ w \in Elems(keep) \/ Row[w] \in Elems(todo')
    <3>1. w \in offered \/ w \in Elems(keep) \/ Row[w] \in Elems(todo)
      BY <2>3 DEF SearchInv, FrontierInv
    <3>2. CASE Row[w] = g
      <4>1. opened \in SUBSET Local
        BY DEF SearchInv, BP!QueueInv, BP!TypeOK
      <4>2. single[x] \in Seq(Local)
        BY <2>3, <4>1, GraphAssumption DEF SearchInv, LoopInv
      <4>3. w \in Local
        BY <2>3, <4>2 DEF Reached
      <4>4. InGroup(g) /\ v = w
        BY <3>2, <4>3, PosOfMember
      <4>5. Contains(visited, w)
        BY <1>5, <4>4
      <4>. QED
        BY <4>3, <4>5 DEF SearchInv, FilterInv
    <3>3. CASE Row[w] # g
      BY <1>2, <3>1, <3>3
    <3>. QED
      BY <3>2, <3>3
  <2>4. FrontierInv'
    BY <1>1, <1>4, <2>1, <2>3 DEF FrontierInv
  <2>. QED
    BY <1>3, <2>2, <2>4 DEF SearchInv
<1>6. CASE InGroup(g) /\ ~ Contains(visited, v)
  <2>1. v \in Local /\ Row[v] = g
    BY <1>6, PosInGroup
  <2>2. visited' = Remember(visited, v) /\ keep' = Append(keep, v)
    BY <1>1, <1>6
  <2>3. keep' \in Seq(Local) /\ Elems(keep') = Elems(keep) \cup {v}
    BY <1>2, <2>1, <2>2, ElemsAppend
  <2>4. LoopInv'
    BY <1>1, <1>2, <2>3 DEF SearchInv, LoopInv
  <2>5. FilterInv'
    <3>1. \A x \in Local :
             /\ visited' = [capacity |-> visited.capacity, seen |-> visited'.seen]
             /\ DOMAIN visited'.seen = DOMAIN visited.seen
             /\ Contains(visited', x) => x = v \/ Contains(visited, x)
      BY <2>1, <2>2, RememberSound DEF SearchInv, FilterInv
    <3>2. /\ visited' = [capacity |-> visited'.capacity, seen |-> visited'.seen]
          /\ visited'.capacity = visited.capacity
          /\ DOMAIN visited'.seen = DOMAIN visited.seen
      BY <2>1, <3>1
    <3>. QED
      BY <1>1, <2>3, <3>1, <3>2 DEF SearchInv, FilterInv
  <2>6. ASSUME NEW x \in opened, NEW w \in Reached(x)
        PROVE  w \in offered \/ w \in Elems(keep') \/ Row[w] \in Elems(todo')
    <3>1. w \in offered \/ w \in Elems(keep) \/ Row[w] \in Elems(todo)
      BY <2>6 DEF SearchInv, FrontierInv
    <3>2. CASE Row[w] = g
      <4>1. opened \in SUBSET Local
        BY DEF SearchInv, BP!QueueInv, BP!TypeOK
      <4>2. single[x] \in Seq(Local)
        BY <2>6, <4>1, GraphAssumption DEF SearchInv, LoopInv
      <4>3. w \in Local
        BY <2>6, <4>2 DEF Reached
      <4>4. v = w
        BY <3>2, <4>3, PosOfMember
      <4>. QED
        BY <2>3, <4>4
    <3>3. CASE Row[w] # g
      BY <1>2, <2>3, <3>1, <3>3
    <3>. QED
      BY <3>2, <3>3
  <2>7. FrontierInv'
    BY <1>1, <1>4, <2>6 DEF FrontierInv
  <2>. QED
    BY <1>3, <2>4, <2>5, <2>7 DEF SearchInv
<1>. QED
  BY <1>5, <1>6

\* Offering a candidate settles it, pushed or not.
LEMMA OfferKeepsInv ==
  ASSUME SearchInv, Offer
  PROVE  SearchInv' /\ (BP!PushAny \/ UNCHANGED <<q, pushed, opened>>)
<1>. PICK v : v = Head(keep)
  OBVIOUS
<1>1. /\ pc = "offer" /\ keep # <<>> /\ keep' = Tail(keep)
      /\ offered' = offered \cup {v}
      /\ IF WorthPushing(DistOf[v])
         THEN q' = Push(q, v, DistOf[v]) /\ pushed' = pushed \cup {v}
         ELSE q' = q /\ pushed' = pushed
      /\ single' = single /\ shared' = shared /\ pc' = pc /\ visited' = visited
      /\ todo' = todo /\ opened' = opened
  BY DEF Offer
<1>2. v \in Local /\ keep' \in Seq(Local) /\ Elems(keep) = {v} \cup Elems(keep')
  BY <1>1, ElemsHeadTail DEF SearchInv, LoopInv
<1>3. LoopInv'
  BY <1>1, <1>2 DEF SearchInv, LoopInv
<1>4. FilterInv'
  BY <1>1, <1>2 DEF SearchInv, FilterInv
<1>5. FrontierInv'
  <2>1. \A x : Reached(x)' = Reached(x)
    BY <1>1 DEF Reached
  <2>. QED
    BY <1>1, <1>2, <2>1 DEF SearchInv, FrontierInv
<1>6. CASE WorthPushing(DistOf[v])
  <2>1. BP!PushAny
    BY <1>1, <1>2, <1>6, SameQueue DEF BP!PushAny
  <2>2. BP!QueueInv'
    BY <2>1, QueuePremises, BP!PushKeepsQueueInv DEF SearchInv
  <2>3. Settled(v)' /\ \A w \in Local : Settled(w) => Settled(w)'
    BY <1>1, <1>2, <1>6, PushSettles DEF SearchInv
  <2>4. SettledInv'
    BY <1>1, <2>3 DEF SearchInv, SettledInv, LoopInv
  <2>. QED
    BY <1>3, <1>4, <1>5, <2>1, <2>2, <2>4 DEF SearchInv
<1>7. CASE ~ WorthPushing(DistOf[v])
  <2>1. q' = q /\ pushed' = pushed
    BY <1>1, <1>7
  <2>2. BP!QueueInv'
    BY <1>1, <2>1 DEF SearchInv, BP!QueueInv, BP!TypeOK,
       BP!CursorsAtTwoNearestOpen, BP!SortedByDistance, BP!Live, BP!Open
  <2>3. Settled(v)
    <3>1. CASE q.size > K /\ 100 * DistOf[v] > 135 * q.slot[K].dist
      BY <3>1 DEF Settled
    <3>2. CASE ~ (q.size < L \/ DistOf[v] < TailDist(q))
      <4>1. q.size \in 0 .. L /\ L \in Nat \ {0} /\ DistOf[v] \in Nat
        BY <1>2, BeamFacts, GroupAssumption DEF SearchInv
      <4>2. q.size = L /\ TailDist(q) \in Nat
        BY <3>2, <4>1, BeamFacts DEF SearchInv, TailDist
      <4>. QED
        BY <3>2, <4>1, <4>2 DEF Settled
    <3>. QED
      BY <1>7, <3>1, <3>2 DEF WorthPushing
  <2>4. SettledInv'
    BY <1>1, <2>1, <2>3 DEF SearchInv, SettledInv, Settled, Queued, TailDist, Live
  <2>. QED
    BY <1>1, <1>3, <1>4, <1>5, <2>1, <2>2, <2>4 DEF SearchInv
<1>. QED
  BY <1>6, <1>7
\* Steps that change neither beam, visited set nor history, and Report.
LEMMA QuietKeepsInv ==
  ASSUME SearchInv, GatherDone \/ OfferDone \/ Report \/ UNCHANGED vars
  PROVE  SearchInv' /\ UNCHANGED <<q, pushed, opened>>
<1>1. /\ single' = single /\ shared' = shared /\ q' = q /\ visited' = visited
      /\ todo' = todo /\ keep' = keep
      /\ offered' = offered /\ pushed' = pushed /\ opened' = opened
  BY DEF GatherDone, OfferDone, Report, vars
<1>2. LoopInv'
  <2>1. CASE GatherDone
    BY <1>1, <2>1 DEF SearchInv, LoopInv, GatherDone
  <2>2. CASE OfferDone
    BY <1>1, <2>2 DEF SearchInv, LoopInv, OfferDone
  <2>3. CASE Report
    BY <1>1, <2>3 DEF SearchInv, LoopInv, Report
  <2>4. CASE UNCHANGED vars
    BY <1>1, <2>4 DEF SearchInv, LoopInv, vars
  <2>. QED
    BY <2>1, <2>2, <2>3, <2>4
<1>3. FilterInv' /\ SettledInv'
  BY <1>1 DEF SearchInv, FilterInv, SettledInv, Settled, Queued, TailDist, Live
<1>4. FrontierInv'
  <2>1. \A x : Reached(x)' = Reached(x)
    BY <1>1 DEF Reached
  <2>. QED
    BY <1>1, <2>1 DEF SearchInv, FrontierInv
<1>5. BP!QueueInv'
  BY <1>1 DEF SearchInv, BP!QueueInv, BP!TypeOK,
     BP!CursorsAtTwoNearestOpen, BP!SortedByDistance, BP!Live, BP!Open
<1>. QED
  BY <1>1, <1>2, <1>3, <1>4, <1>5 DEF SearchInv

\* Every step of the search preserves the invariant and is a step of the beam's client.
LEMMA StepKeepsInv ==
  ASSUME SearchInv, [Next]_vars
  PROVE  SearchInv' /\ (BP!Next \/ UNCHANGED <<q, pushed, opened>>)
<1>1. CASE Seed
  BY <1>1, SeedKeepsInv DEF BP!Next
<1>2. CASE PopFront
  BY <1>2, PopKeepsInv DEF BP!Next
<1>3. CASE Gather
  <2>1. UNCHANGED <<q, pushed, opened>>
    BY <1>3 DEF Gather
  <2>. QED
    BY <1>3, <2>1, GatherKeepsInv
<1>4. CASE Offer
  BY <1>4, OfferKeepsInv DEF BP!Next
<1>5. CASE GatherDone \/ OfferDone \/ Report \/ UNCHANGED vars
  BY <1>5, QuietKeepsInv
<1>. QED
  BY <1>1, <1>2, <1>3, <1>4, <1>5 DEF Next

\* The inductive invariant of run_hybrid_query's graph search (run_query.cpp:347).
THEOREM SearchInvHolds == Spec => []SearchInv
<1>1. SearchInv /\ [Next]_vars => SearchInv'
  BY StepKeepsInv
<1>. QED
  BY <1>1, InitSearchInv, PTL DEF Spec

(***************************************************************************)
(* For every group, graph, width, number of results and distances: when a  *)
(* query has ended, every neighbour of an expanded vertex is in the beam,  *)
(* or no nearer than its full tail, or beyond the cut-off.                 *)
(***************************************************************************)
THEOREM LocalOptimum == Spec => []EndsAtLocalOptimum
<1>1. SearchInv => EndsAtLocalOptimum
  <2> SUFFICES ASSUME SearchInv, pc = "done", NEW u \in opened, NEW w \in Reached(u)
               PROVE  Settled(w)
    BY DEF EndsAtLocalOptimum
  <2>1. Elems(todo) = {} /\ Elems(keep) = {}
    BY DEF SearchInv, LoopInv, Elems
  <2>2. w \in offered
    BY <2>1 DEF SearchInv, FrontierInv
  <2>. QED
    BY <2>2 DEF SearchInv, SettledInv
<1>. QED
  BY <1>1, SearchInvHolds, PTL

\* The search implements the client of the queue: the theorems about it apply.
THEOREM SearchUsesBeam == Spec => UsesBeamAsSpecified
<1>1. /\ \A x : Beam!HasUnexpanded(x) = BP!HasUnexpanded(x)
      /\ \A x, v, d : Beam!Push(x, v, d) = BP!Push(x, v, d)
      /\ \A x : Beam!SetFrontExpanded(x) = BP!SetFrontExpanded(x)
      /\ Beam!NewQueue = BP!NewQueue
  <2>1. \A x, d : Beam!LowerBound(x, d) = BP!LowerBound(x, d)
    BY DEF Beam!LowerBound, BP!LowerBound, Beam!IsLowerBound, BP!IsLowerBound
  <2>2. \A x, l, v, d : Beam!InsertAt(x, l, v, d) = BP!InsertAt(x, l, v, d)
    BY DEF Beam!InsertAt, BP!InsertAt, Beam!Shifted, BP!Shifted, Beam!Slots, BP!Slots
  <2>3. \A x, v, d : Beam!Push(x, v, d) = BP!Push(x, v, d)
    BY <2>1, <2>2 DEF Beam!Push, BP!Push, Beam!TailDist, BP!TailDist
  <2>4. \A s, n, i : Beam!FirstUnexpanded(s, n, i) = BP!FirstUnexpanded(s, n, i)
    BY DEF Beam!FirstUnexpanded, BP!FirstUnexpanded
  <2>5. \A x : Beam!SetFrontExpanded(x) = BP!SetFrontExpanded(x)
    BY <2>4 DEF Beam!SetFrontExpanded, BP!SetFrontExpanded
  <2>. QED
    BY <2>3, <2>5 DEF Beam!HasUnexpanded, BP!HasUnexpanded, Beam!NewQueue, BP!NewQueue,
                      Beam!Slots, BP!Slots, Beam!Blank, BP!Blank
<1>2. Init => Beam!Init
  BY <1>1, SameQueue DEF Init, Beam!Init
<1>3. BP!Next => Beam!Next
  BY <1>1 DEF BP!Next, Beam!Next, BP!PushAny, Beam!PushAny, BP!ExpandFront, Beam!ExpandFront
<1>4. SearchInv /\ [Next]_vars => [Beam!Next]_(Beam!vars)
  BY <1>3, StepKeepsInv DEF Beam!vars
<1>. QED
  BY <1>2, <1>4, SearchInvHolds, PTL DEF Spec, UsesBeamAsSpecified, Beam!Spec

-----------------------------------------------------------------------------
\* What is reported is what the first K slots hold.
ReportInv == pc = "done" => results = [i \in 1 .. K |-> Row[q.slot[i - 1].vid]]

(***************************************************************************)
(* For every instance: the results come nearest first, and nothing whose   *)
(* distance was computed and that is not reported is nearer than one of    *)
(* them, once the beam holds K entries.                                    *)
(***************************************************************************)
THEOREM NearestReported == Spec => []ReportsNearestOffered
<1>1. Init => ReportInv
  BY DEF Init, ReportInv
<1>2. ReportInv /\ [Next]_vars => ReportInv'
  BY DEF ReportInv, Next, vars, Seed, PopFront, Gather, GatherDone, Offer, OfferDone, Report
<1>3. SearchInv /\ ReportInv => ReportsNearestOffered
  <2> SUFFICES ASSUME SearchInv, ReportInv, pc = "done", q.size >= K
               PROVE  /\ \A i, j \in 1 .. K : i < j =>
                            DistOf[Pos(results[i])] <= DistOf[Pos(results[j])]
                      /\ \A w \in offered : \/ \E i \in 1 .. K : results[i] = Row[w]
                                            \/ DistOf[w] >= DistOf[Pos(results[K])]
    BY DEF ReportsNearestOffered
  <2>1. /\ q.size \in 0 .. L /\ L \in Nat \ {0} /\ K \in Nat \ {0}
        /\ \A i \in 0 .. q.size - 1 : /\ q.slot[i].vid \in Local /\ q.slot[i].dist \in Nat
                                     /\ q.slot[i].dist = DistOf[q.slot[i].vid]
        /\ \A i, j \in 0 .. q.size - 1 : i < j => q.slot[i].dist <= q.slot[j].dist
    BY BeamFacts, KAssumption DEF SearchInv
  <2>2. \A i \in 1 .. K : /\ i - 1 \in 0 .. q.size - 1
                          /\ results[i] = Row[q.slot[i - 1].vid]
                          /\ Pos(results[i]) = q.slot[i - 1].vid
                          /\ DistOf[Pos(results[i])] = q.slot[i - 1].dist
    <3> SUFFICES ASSUME NEW i \in 1 .. K
                 PROVE  /\ i - 1 \in 0 .. q.size - 1
                        /\ results[i] = Row[q.slot[i - 1].vid]
                        /\ Pos(results[i]) = q.slot[i - 1].vid
                        /\ DistOf[Pos(results[i])] = q.slot[i - 1].dist
      OBVIOUS
    <3>1. i - 1 \in 0 .. q.size - 1
      BY <2>1
    <3>2. results[i] = Row[q.slot[i - 1].vid]
      BY DEF ReportInv
    <3>3. q.slot[i - 1].vid \in Local /\ q.slot[i - 1].dist = DistOf[q.slot[i - 1].vid]
      BY <2>1, <3>1
    <3>4. Pos(results[i]) = q.slot[i - 1].vid
      BY <3>2, <3>3, PosOfMember
    <3>. QED
      BY <3>1, <3>2, <3>3, <3>4
  <2>3. \A i, j \in 1 .. K : i < j => DistOf[Pos(results[i])] <= DistOf[Pos(results[j])]
    BY <2>1, <2>2
  <2>4. ASSUME NEW w \in offered
        PROVE  \/ \E i \in 1 .. K : results[i] = Row[w]
               \/ DistOf[w] >= DistOf[Pos(results[K])]
    <3>1. Settled(w) /\ w \in Local /\ DistOf[w] \in Nat
      BY GroupAssumption DEF SearchInv, SettledInv, LoopInv
    <3>2. DistOf[Pos(results[K])] = q.slot[K - 1].dist /\ K - 1 \in 0 .. q.size - 1
      BY <2>1, <2>2
    <3>3. CASE w \in Queued
      <4>1. PICK i \in 0 .. q.size - 1 : q.slot[i].vid = w
        BY <3>3 DEF Queued, Live
      <4>2. CASE i < K
        <5>1. i + 1 \in 1 .. K /\ (i + 1) - 1 = i
          BY <2>1, <4>2
        <5>2. results[i + 1] = Row[w]
          BY <2>2, <4>1, <5>1
        <5>. QED
          BY <5>1, <5>2
      <4>3. CASE i >= K
        BY <2>1, <3>2, <4>1, <4>3
      <4>. QED
        BY <2>1, <4>2, <4>3
    <3>4. CASE q.size = L /\ DistOf[w] >= TailDist(q)
      <4>1. q.size - 1 \in 0 .. q.size - 1 /\ (K - 1 = q.size - 1 \/ K - 1 < q.size - 1)
        BY <2>1, <3>2
      <4>2. q.slot[K - 1].dist <= q.slot[q.size - 1].dist
        BY <2>1, <3>2, <4>1
      <4>. QED
        BY <2>1, <3>1, <3>2, <3>4, <4>1, <4>2 DEF TailDist
    <3>5. CASE q.size > K /\ 100 * DistOf[w] > 135 * q.slot[K].dist
      <4>1. K \in 0 .. q.size - 1 /\ q.slot[K - 1].dist <= q.slot[K].dist
        BY <2>1, <3>2, <3>5
      <4>. QED
        BY <2>1, <3>1, <3>2, <3>5, <4>1
    <3>. QED
      BY <3>1, <3>3, <3>4, <3>5 DEF Settled
  <2>. QED
    BY <2>3, <2>4
<1>. QED
  BY <1>1, <1>2, <1>3, SearchInvHolds, PTL DEF Spec
-----------------------------------------------------------------------------
(***************************************************************************)
(* When no two vectors of the group are equally far from the query, no     *)
(* vector ever takes two places of the beam, although the visited set      *)
(* forgets vertices and they are pushed again (run_query.cpp:379, 404).    *)
(***************************************************************************)
THEOREM NoVectorTwice ==
  ASSUME BP!DistinctDistances
  PROVE  Spec => []NoVectorTwiceInBeam
<1>1. Init => BP!Init
  BY SameQueue DEF Init, BP!Init
<1>2. SearchInv /\ [Next]_vars => [BP!Next]_(BP!vars)
  BY StepKeepsInv DEF BP!vars
<1>3. Spec => BP!Spec
  BY <1>1, <1>2, SearchInvHolds, PTL DEF Spec, BP!Spec
<1>4. BP!Spec => []BP!NoDuplicateIds
  BY QueuePremises, BP!NoDuplicatesWhenDistinct
<1>5. BP!NoDuplicateIds => NoVectorTwiceInBeam
  BY SameQueue DEF BP!NoDuplicateIds, NoVectorTwiceInBeam
<1>. QED
  BY <1>3, <1>4, <1>5, PTL

-----------------------------------------------------------------------------
\* The visited set has a slot of its own for every position of the group, as it has
\* whenever L * L is no less than the group's size: its capacity is a power of two
\* above the number it was made for (NoVectorTwiceInLargeBeams).
SlotForEach == Cardinality(Local) <= CapacityFor(VisitedSize)

\* Then it forgets nothing: what it claims to have seen, what was offered and what is
\* kept to be offered agree, and nothing is kept, or queued, a second time.
ExactInv ==
    /\ visited.capacity = CapacityFor(VisitedSize)
    /\ \A v \in offered \cup Elems(keep) : Contains(visited, v)
    /\ \A i, j \in 1 .. Len(keep) : keep[i] = keep[j] => i = j
    /\ Elems(keep) \cap offered = {}
    /\ Queued \subseteq offered
    /\ NoVectorTwiceInBeam

\* With a slot for each position, remembering one forgets no other.
LEMMA RememberExact ==
  ASSUME SlotForEach, NEW f, NEW t \in Local, NEW v \in Local,
         f.capacity = CapacityFor(VisitedSize), DOMAIN f.seen = 0 .. f.capacity - 1,
         f = [capacity |-> f.capacity, seen |-> f.seen]
  PROVE  /\ Remember(f, t).capacity = f.capacity
         /\ Contains(Remember(f, t), v) <=> v = t \/ Contains(f, v)
<1>1. Cardinality(Local) \in Nat /\ f.capacity \in Nat \ {0} /\ Cardinality(Local) <= f.capacity
  BY GroupAssumption, CapacityAbove, FS_CardinalityType DEF SlotForEach
<1>2. t \in 0 .. f.capacity - 1 /\ v \in 0 .. f.capacity - 1
  BY <1>1, GroupAssumption
<1>3. t % f.capacity = t /\ v % f.capacity = v
  BY <1>1, <1>2
<1>4. Remember(f, t).capacity = f.capacity /\ Remember(f, t).seen = [f.seen EXCEPT ![t] = t]
  BY <1>3 DEF Remember, GetHash
<1>5. Contains(f, v) <=> f.seen[v] = v
  BY <1>3 DEF Contains, GetHash
<1>6. Contains(Remember(f, t), v) <=> [f.seen EXCEPT ![t] = t][v] = v
  BY <1>3, <1>4 DEF Contains, GetHash
<1>. QED
  BY <1>2, <1>4, <1>5, <1>6

\* A vertex that is not queued is pushed to at most one place, and displaces no other.
LEMMA PushNew ==
  ASSUME BP!QueueInv, NoVectorTwiceInBeam, NEW v \in Local, v \notin Queued,
         q' = Push(q, v, DistOf[v])
  PROVE  NoVectorTwiceInBeam' /\ Queued' \subseteq Queued \cup {v}
<1>1. /\ q \in BP!QueueType /\ q.size \in 0 .. L /\ L \in Nat \ {0} /\ q.next_idx <= q.size
      /\ DistOf[v] \in Nat
  BY BeamFacts, GroupAssumption
<1>2. q' = BP!Push(q, v, DistOf[v])
  BY SameQueue
<1>3. CASE q' = q
  BY <1>3 DEF NoVectorTwiceInBeam, Queued, Live
<1>4. ASSUME NEW loc \in 0 .. q.size, loc < L, q' = BP!InsertAt(q, loc, v, DistOf[v])
      PROVE  NoVectorTwiceInBeam' /\ Queued' \subseteq Queued \cup {v}
  <2>1. /\ q'.size = IF q.size < L THEN q.size + 1 ELSE q.size
        /\ q'.slot[loc] = [vid |-> v, dist |-> DistOf[v], expanded |-> FALSE]
        /\ \A i \in 0 .. loc - 1 : q'.slot[i] = q.slot[i]
        /\ \A i \in loc + 1 .. q'.size - 1 :
              i - 1 \in 0 .. q.size - 1 /\ q'.slot[i] = q.slot[i - 1]
    BY <1>1, <1>4, QueuePremises, BP!InsertFields
  <2> DEFINE was(i) == IF i < loc THEN i ELSE i - 1
  <2>2. \A i \in 0 .. q'.size - 1 : i # loc =>
           was(i) \in 0 .. q.size - 1 /\ q'.slot[i] = q.slot[was(i)]
    BY <1>1, <2>1
  <2>3. \A i, j \in 0 .. q'.size - 1 : i # loc /\ j # loc /\ was(i) = was(j) => i = j
    BY <1>1, <2>1
  <2>4. \A i \in 0 .. q.size - 1 : q.slot[i].vid # v
    BY DEF Queued, Live
  <2>5. \A i, j \in 0 .. q.size - 1 : q.slot[i].vid = q.slot[j].vid => i = j
    BY DEF NoVectorTwiceInBeam, Live
  <2>6. q'.slot[loc].vid = v
    BY <2>1
  <2> HIDE DEF was
  <2>7. NoVectorTwiceInBeam'
    BY <2>2, <2>3, <2>4, <2>5, <2>6 DEF NoVectorTwiceInBeam, Live
  <2>8. Queued' \subseteq Queued \cup {v}
    BY <2>2, <2>6 DEF Queued, Live
  <2>. QED
    BY <2>7, <2>8
<1>. QED
  BY <1>1, <1>2, <1>3, <1>4, QueuePremises, BP!PushCases, SameQueue

\* The exact visited set's invariant holds at the start and after every step.
LEMMA ExactKept ==
  ASSUME SlotForEach
  PROVE  /\ Init => ExactInv
         /\ SearchInv /\ ExactInv /\ [Next]_vars => ExactInv'
<1>1. ASSUME Init PROVE ExactInv
  <2>1. visited.capacity = CapacityFor(VisitedSize)
    BY <1>1 DEF Init, NewFilter
  <2>2. keep = <<>> /\ offered = {} /\ q.size = 0
    BY <1>1 DEF Init, NewQueue
  <2>. QED
    BY <2>1, <2>2 DEF ExactInv, NoVectorTwiceInBeam, Queued, Live, Elems
<1>2. ASSUME SearchInv, ExactInv, Seed PROVE ExactInv'
  <2>1. Start \in Local
    BY PosOfMember, GroupAssumption DEF Start
  <2>2. /\ q' = Push(q, Start, DistOf[Start]) /\ visited' = Remember(visited, Start)
        /\ offered' = {Start} /\ keep' = keep /\ offered = {} /\ keep = <<>>
    BY <1>2 DEF Seed, SearchInv, LoopInv
  <2>3. NoVectorTwiceInBeam' /\ Queued' \subseteq offered'
    <3>1. Queued = {}
      BY <1>2, <2>2 DEF ExactInv
    <3>. QED
      BY <1>2, <2>1, <2>2, <3>1, PushNew DEF SearchInv, ExactInv
  <2>4. \A v \in Local : /\ visited'.capacity = visited.capacity
                         /\ Contains(visited', v) <=> v = Start \/ Contains(visited, v)
    BY <1>2, <2>1, <2>2, RememberExact DEF SearchInv, FilterInv, ExactInv
  <2>. QED
    BY <1>2, <2>1, <2>2, <2>3, <2>4 DEF ExactInv, Elems
<1>3. ASSUME SearchInv, ExactInv, PopFront PROVE ExactInv'
  <2>1. /\ q' = SetFrontExpanded(q) /\ visited' = visited /\ offered' = offered
        /\ keep' = <<>> /\ HasUnexpanded(q)
    BY <1>3 DEF PopFront
  <2>2. q'.size = q.size /\ \A i \in Live(q) : q'.slot[i].vid = q.slot[i].vid
    <3>1. /\ q \in BP!QueueType /\ q.size \in 0 .. L /\ L \in Nat \ {0} /\ q.next_idx \in 0 .. q.size - 1
          /\ q.slot \in [Slots -> BP!Entry] /\ Slots = 0 .. L /\ q.next_idx2 <= q.size
      BY <1>3, <2>1, BeamFacts, SameQueue
         DEF SearchInv, HasUnexpanded, BP!QueueInv, BP!CursorsAtTwoNearestOpen, BP!QueueType, Slots
    <3>2. /\ q'.size = q.size
          /\ q'.slot[q.next_idx] = [q.slot[q.next_idx] EXCEPT !.expanded = TRUE]
          /\ \A i \in Slots \ {q.next_idx} : q'.slot[i] = q.slot[i]
      BY <2>1, <3>1, SameQueue, QueuePremises, BP!ExpandFields
    <3>3. q'.slot[q.next_idx].vid = q.slot[q.next_idx].vid
      BY <3>1, <3>2 DEF BP!Entry
    <3>4. Live(q) \subseteq Slots
      BY <3>1 DEF Live
    <3>5. ASSUME NEW i \in Live(q) PROVE q'.slot[i].vid = q.slot[i].vid
      BY <3>2, <3>3, <3>4
    <3>. QED
      BY <3>2, <3>5
  <2>3. NoVectorTwiceInBeam' /\ Queued' = Queued
    BY <1>3, <2>2 DEF ExactInv, NoVectorTwiceInBeam, Queued, Live
  <2>4. \A v : Contains(visited', v) <=> Contains(visited, v)
    BY <2>1
  <2>. QED
    BY <1>3, <2>1, <2>3, <2>4 DEF ExactInv, Elems
<1>4. ASSUME SearchInv, ExactInv, Gather PROVE ExactInv'
  <2> DEFINE v == Pos(Head(todo))
  <2>1. q' = q /\ offered' = offered /\ Queued' = Queued /\ NoVectorTwiceInBeam'
    BY <1>4 DEF Gather, ExactInv, NoVectorTwiceInBeam, Queued, Live
  <2>2. CASE ~ InGroup(Head(todo)) \/ Contains(visited, v)
    <3>1. visited' = visited /\ keep' = keep
      BY <1>4, <2>2 DEF Gather
    <3>. QED
      BY <1>4, <2>1, <3>1 DEF ExactInv, Elems
  <2>3. CASE InGroup(Head(todo)) /\ ~ Contains(visited, v)
    <3>1. v \in Local
      BY <2>3, PosInGroup
    <3>2. visited' = Remember(visited, v) /\ keep' = Append(keep, v)
      BY <1>4, <2>3 DEF Gather
    <3> HIDE DEF v
    <3>3. keep \in Seq(Local) /\ offered \in SUBSET Local
      BY <1>4 DEF SearchInv, LoopInv
    <3>4. keep' \in Seq(Local) /\ Elems(keep') = Elems(keep) \cup {v}
      BY <3>1, <3>2, <3>3, ElemsAppend
    <3>5. v \notin offered /\ v \notin Elems(keep)
      BY <1>4, <2>3 DEF ExactInv
    <3>6. \A i, j \in 1 .. Len(keep') : keep'[i] = keep'[j] => i = j
      <4>1. /\ Len(keep) \in Nat /\ Len(keep') = Len(keep) + 1
            /\ \A i \in 1 .. Len(keep) : keep'[i] = keep[i]
            /\ keep'[Len(keep) + 1] = v
        BY <3>1, <3>2, <3>3
      <4>2. \A i \in 1 .. Len(keep) : keep[i] # v
        BY <3>5 DEF Elems
      <4>3. \A i, j \in 1 .. Len(keep) : keep[i] = keep[j] => i = j
        BY <1>4 DEF ExactInv
      <4>4. \A i \in 1 .. Len(keep') : i \in 1 .. Len(keep) \/ i = Len(keep) + 1
        BY <4>1
      <4>. QED
        BY <4>1, <4>2, <4>3, <4>4
    <3>7. \A x \in Local : /\ visited'.capacity = visited.capacity
                           /\ Contains(visited', x) <=> x = v \/ Contains(visited, x)
      BY <1>4, <3>1, <3>2, RememberExact DEF SearchInv, FilterInv, ExactInv
    <3>8. Elems(keep) \subseteq Local
      BY <3>3 DEF Elems
    <3>. QED
      BY <1>4, <2>1, <3>1, <3>3, <3>4, <3>5, <3>6, <3>7, <3>8 DEF ExactInv
  <2>. QED
    BY <2>2, <2>3
<1>5. ASSUME SearchInv, ExactInv, Offer PROVE ExactInv'
  <2> DEFINE v == Head(keep)
  <2>1. /\ keep # <<>> /\ keep' = Tail(keep) /\ offered' = offered \cup {v}
        /\ visited' = visited
        /\ q' = Push(q, v, DistOf[v]) \/ q' = q
    BY <1>5 DEF Offer
  <2>2. keep \in Seq(Local)
    BY <1>5 DEF SearchInv, LoopInv
  <2>3. v \in Local /\ Elems(keep) = {v} \cup Elems(keep')
    BY <2>1, <2>2, ElemsHeadTail
  <2>4. /\ Len(keep) \in Nat \ {0} /\ Len(keep') = Len(keep) - 1 /\ keep[1] = v
        /\ \A i \in 1 .. Len(keep') : keep'[i] = keep[i + 1]
    BY <2>1, <2>2
  <2> HIDE DEF v
  <2>5. v \notin offered /\ v \notin Queued
    BY <1>5, <2>3 DEF ExactInv
  <2>6. NoVectorTwiceInBeam' /\ Queued' \subseteq offered'
    <3>1. CASE q' = q
      BY <1>5, <2>1, <3>1 DEF ExactInv, NoVectorTwiceInBeam, Queued, Live
    <3>2. CASE q' = Push(q, v, DistOf[v])
      <4>1. NoVectorTwiceInBeam' /\ Queued' \subseteq Queued \cup {v}
        BY <1>5, <2>3, <2>5, <3>2, PushNew DEF SearchInv, ExactInv
      <4>. QED
        BY <1>5, <2>1, <4>1 DEF ExactInv
    <3>. QED
      BY <2>1, <3>1, <3>2
  <2>7. \A i, j \in 1 .. Len(keep) : keep[i] = keep[j] => i = j
    BY <1>5 DEF ExactInv
  <2>8. \A i \in 1 .. Len(keep') : i + 1 \in 1 .. Len(keep) /\ i + 1 # 1
    BY <2>4
  <2>9. \A i, j \in 1 .. Len(keep') : keep'[i] = keep'[j] => i = j
    BY <2>4, <2>7, <2>8
  <2>10. v \notin Elems(keep')
    <3>1. 1 \in 1 .. Len(keep)
      BY <2>4
    <3>. QED
      BY <2>4, <2>7, <2>8, <3>1 DEF Elems
  <2>11. \A x : Contains(visited', x) <=> Contains(visited, x)
    BY <2>1
  <2>. QED
    BY <1>5, <2>1, <2>3, <2>6, <2>9, <2>10, <2>11 DEF ExactInv
<1>6. ASSUME SearchInv, ExactInv, GatherDone \/ OfferDone \/ Report \/ UNCHANGED vars PROVE ExactInv'
  <2>1. q' = q /\ visited' = visited /\ keep' = keep /\ offered' = offered
    BY <1>6 DEF GatherDone, OfferDone, Report, vars
  <2>. QED
    BY <1>6, <2>1 DEF ExactInv, NoVectorTwiceInBeam, Queued, Live, Elems
<1>. QED
  BY <1>1, <1>2, <1>3, <1>4, <1>5, <1>6 DEF Next

(***************************************************************************)
(* Ties or not: when the visited set has a slot for every vector of the    *)
(* group, no vector takes two places of the beam, although the queue       *)
(* alone would let a vector in twice among equal distances                 *)
(* (run_query.cpp:379, 404; hash_table.hpp).                               *)
(***************************************************************************)
THEOREM NoVectorTwiceWhenExact ==
  ASSUME SlotForEach
  PROVE  Spec => []NoVectorTwiceInBeam
<1>1. Init => ExactInv
  BY ExactKept
<1>2. SearchInv /\ ExactInv /\ [Next]_vars => ExactInv'
  BY ExactKept
<1>3. ExactInv => NoVectorTwiceInBeam
  BY DEF ExactInv
<1>. QED
  BY <1>1, <1>2, <1>3, SearchInvHolds, PTL DEF Spec

(***************************************************************************)
(* So it is whenever the beam's square is no less than the group: the set  *)
(* is made for as many vectors as the group has (run_query.cpp:351) and    *)
(* gets a power of two of slots above that (hash_table.hpp:26-28).         *)
(***************************************************************************)
THEOREM NoVectorTwiceInLargeBeams ==
  ASSUME Cardinality(Local) <= L * L
  PROVE  Spec => []NoVectorTwiceInBeam
<1>1. SlotForEach
  <2>1. VisitedSize = Cardinality(Local)
    <3>1. PICK c \in Nat : c = Cardinality(Local)
      BY GroupAssumption, FS_CardinalityType
    <3>2. PICK s \in Nat : s = L * L
      BY LAssumption
    <3>3. ~ (s < c)
      BY <3>1, <3>2
    <3>. QED
      BY <3>1, <3>2, <3>3 DEF VisitedSize
  <2>. QED
    BY <2>1, CapacityAbove DEF SlotForEach
<1>. QED
  BY <1>1, NoVectorTwiceWhenExact
=============================================================================
