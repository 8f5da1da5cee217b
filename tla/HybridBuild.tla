---------------------------- MODULE HybridBuild ----------------------------
(***************************************************************************)
(* The construction of the hybrid index: build_hybrid_graph of             *)
(* src/build_hybrid_graph.hpp.  Every big label has a graph of its own     *)
(* (`single') on the vectors that carry it (its group); one graph          *)
(* (`shared') joins vectors with MinShared or more labels in common.       *)
(* Vectors are inserted in batches.  Within a batch each vector is a       *)
(* parallel task: for each of its big labels it searches that label's      *)
(* vectors from the label's first one and takes the vertices it expands as *)
(* candidate neighbours.  After a barrier the edges are reversed by one    *)
(* thread and the lists that grew are pruned in parallel.                  *)
(*                                                                         *)
(* An edge is <<distance, overlap, vector>> in shared, <<distance,         *)
(* vector>> in single; a position in a group is written as the vector it   *)
(* stands for (rows of filterst are sorted, so both order alike), and      *)
(* lookups of a vector outside the group are excluded by StaysInGroup.     *)
(***************************************************************************)
EXTENDS PQueue, HashFilter, Sequences, FiniteSets

CONSTANTS N, Labels,
          FilterChoices, OrderChoices,   \* label sets and insertion orders considered
          Dist,                          \* squared distances
          D,                             \* degree of each label's graph, from GRAPH_DEGREE
          SharedD, MinShared, BigCutoff,
          AlphaNum, AlphaDen,            \* ALPHA, a fraction
          OverlapMax,                    \* 255, the largest uint8_t
          BatchDiv                       \* 100: batch_bound is 0.01*N

V == 0 .. N - 1

ASSUME BuildAssumption ==
    /\ N \in Nat \ {0} /\ Labels \subseteq Nat /\ IsFiniteSet(Labels)
    /\ FilterChoices \subseteq [V -> SUBSET Labels]
    /\ \A o \in OrderChoices : o \in [V -> V] /\ \A i, j \in V : o[i] = o[j] => i = j
    /\ Dist \in [V -> [V -> Nat]]
    /\ D \in [Labels -> Nat \ {0}]
    /\ {SharedD, MinShared, BigCutoff, OverlapMax} \subseteq Nat
    /\ AlphaNum \in Nat /\ {AlphaDen, BatchDiv} \subseteq Nat \ {0}

VARIABLES filters, order, initVertex, start, phase, single, shared,
          pc, left, label, q, visited, at, keep,    \* of each task
          reversed,                                 \* how far the reverse loop has come
          updShared, updSingle,                     \* lists still to be pruned
          graphShared, graphSingle                  \* the arrays handed over

index == <<filters, order, initVertex>>
tasks == <<pc, left, label, q, visited, at, keep>>
graphs == <<graphShared, graphSingle>>
vars == <<index, start, phase, single, shared, tasks, reversed,
          updShared, updSingle, graphs>>
-----------------------------------------------------------------------------
LowerOf(a, b) == IF a < b THEN a ELSE b

Group(f) == {v \in V : f \in filters[v]}
Big == {f \in Labels : Cardinality(Group(f)) > BigCutoff}
BigOf(v) == filters[v] \cap DOMAIN initVertex

\* Mutant: the last carrier in the insertion order.
FirstCarrierLast(f) ==
    order[CHOOSE i \in V : order[i] \in Group(f) /\ \A j \in i + 1 .. N - 1 : order[j] \notin Group(f)]

\* init_vertex: the first carrier in the insertion order.
FirstCarrier(f) ==
    order[CHOOSE i \in V : order[i] \in Group(f) /\ \A j \in 0 .. i - 1 : order[j] \notin Group(f)]

\* Mutant: one part in BatchDiv + 1 of what has been inserted.
BatchBoundRelative == start \div (BatchDiv + 1)

BatchBound == N \div BatchDiv
BatchEnd == LowerOf(LowerOf(2 * start, start + BatchBound), N)
Batch == {order[i] : i \in start .. BatchEnd - 1}

Overlap(u, v) == LowerOf(Cardinality(filters[u] \cap filters[v]), OverlapMax)

Target(e) == e[Len(e)]
Ends(list) == {Target(list[k]) : k \in DOMAIN list}

\* Lexicographic order of the tuples.
Before(e, d) == \E k \in DOMAIN e : e[k] < d[k] /\ \A j \in 1 .. k - 1 : e[j] = d[j]

\* sort(): the place of an entry is the number of entries not behind it.
PlaceOf(list, i) ==
    Cardinality({j \in DOMAIN list : Before(list[j], list[i]) \/ (list[j] = list[i] /\ j <= i)})
Sorted(list) ==
    [n \in DOMAIN list |-> list[CHOOSE i \in DOMAIN list : PlaceOf(list, i) = n]]

\* Mutant: the shortcut compares the overlap with the labels of the far end.
PassesFarEnd(f, u, e) == e[2] = Cardinality(filters[Target(e)]) \/ f \in filters[Target(e)]

\* A shared edge of u leads to a carrier of f: full overlap needs no look-up.
Passes(f, u, e) == e[2] = Cardinality(filters[u]) \/ f \in filters[Target(e)]

(***************************************************************************)
(* Pruning.  Nearest first, an edge is kept unless a kept edge's end, or   *)
(* one of `others', is nearer to its end than the vertex itself; a second  *)
(* pass with ALPHA fills up what is left.                                  *)
(***************************************************************************)
Pass(cand, bound, others, num, den, kept) ==
    LET taken[k \in 0 .. Len(cand)] ==
          IF k = 0 THEN kept
          ELSE LET ks == taken[k - 1]
                   e  == cand[k]
               IN  IF \/ Len(ks) = bound
                      \/ \E w \in others \cup Ends(ks) : num * Dist[w][Target(e)] <= den * e[1]
                   THEN ks
                   ELSE Append(ks, e)
    IN  taken[Len(cand)]

PruneTo(list, bound, others) ==
    LET cand == Sorted(list)
    IN  IF Len(list) <= bound THEN list
        ELSE Pass(cand, bound, others, AlphaNum, AlphaDen,
                  Pass(cand, bound, others, 1, 1, <<>>))

PrunedShared(list) == PruneTo(list, SharedD, {})

PrunedSingle(f, u, list) ==
    PruneTo(list, D[f], {Target(shared[u][i]) : i \in {k \in DOMAIN shared[u] : Passes(f, u, shared[u][k])}})
-----------------------------------------------------------------------------
Init == /\ filters \in FilterChoices /\ order \in OrderChoices
        /\ initVertex = [f \in Big |-> FirstCarrier(f)]
        /\ start = 1 /\ phase = "insert"
        /\ single = [f \in Labels |-> [v \in V |-> <<>>]]
        /\ shared = [v \in V |-> <<>>]
        /\ pc = [v \in V |-> "label"]
        /\ left = [v \in V |-> BigOf(v)]
        /\ label = [v \in V |-> 0]
        /\ q = [v \in V |-> NewQueue]
        /\ visited = [v \in V |-> NewFilter(1)]
        /\ at = [v \in V |-> 0] /\ keep = [v \in V |-> <<>>]
        /\ reversed = 0 /\ updShared = {} /\ updSingle = {}
        /\ graphShared = <<>> /\ graphSingle = <<>>

Running(v) == phase = "insert" /\ v \in Batch
Goto(v, from, to) == pc[v] = from /\ pc' = [pc EXCEPT ![v] = to]
KeepsPhase == UNCHANGED <<index, start, phase, reversed, updShared, updSingle, graphs>>

\* The next big label of which ins is not the first vector, in the row's order.
StartLabel(ins) ==
    /\ Running(ins) /\ Goto(ins, "label", "expand")
    /\ \E f \in left[ins] :
         LET first == initVertex[f]
         IN  /\ first # ins
             /\ \A g \in left[ins] : g < f => initVertex[g] = ins
             /\ label' = [label EXCEPT ![ins] = f]
             /\ left' = [left EXCEPT ![ins] = {g \in @ : g > f}]
             /\ q' = [q EXCEPT ![ins] = Push(NewQueue, first, Dist[first][ins])]
             /\ visited' = [visited EXCEPT ![ins] =
                   Remember(NewFilter(LowerOf(L * L, Cardinality(Group(f)))), first)]
    /\ UNCHANGED <<single, shared, at, keep>> /\ KeepsPhase

\* Mutant: the reverse edge is added at once, in the parallel loop.
ExpandBothWays(ins) ==
    /\ Running(ins) /\ Goto(ins, "expand", "readSingle")
    /\ HasUnexpanded(q[ins])
    /\ LET f == label[ins]
           u == q[ins].slot[q[ins].next_idx].vid
           d == q[ins].slot[q[ins].next_idx].dist
       IN  /\ single' = [single EXCEPT ![f][ins] = Append(@, <<d, u>>), ![f][u] = Append(@, <<d, ins>>)]
           /\ at' = [at EXCEPT ![ins] = u]
    /\ q' = [q EXCEPT ![ins] = SetFrontExpanded(@)]
    /\ keep' = [keep EXCEPT ![ins] = <<>>]
    /\ UNCHANGED <<shared, left, label, visited>> /\ KeepsPhase

\* add_edge for the front of the beam, then set_front_expanded.
Expand(ins) ==
    /\ Running(ins) /\ Goto(ins, "expand", "readSingle")
    /\ HasUnexpanded(q[ins])
    /\ LET f == label[ins]
           u == q[ins].slot[q[ins].next_idx].vid
           d == q[ins].slot[q[ins].next_idx].dist
           overlap == Overlap(ins, u)
       IN  /\ shared' = IF overlap >= MinShared
                        THEN [shared EXCEPT ![ins] = Append(@, <<d, overlap, u>>)]
                        ELSE shared
           /\ single' = [single EXCEPT ![f][ins] = Append(@, <<d, u>>)]
           /\ at' = [at EXCEPT ![ins] = u]
    /\ q' = [q EXCEPT ![ins] = SetFrontExpanded(@)]
    /\ keep' = [keep EXCEPT ![ins] = <<>>]
    /\ UNCHANGED <<left, label, visited>> /\ KeepsPhase

\* is_visited.add on the ends of the entries of list that are not passed over: the
\* filter after it, and the new ones in order.
Fresh(filter, list, ok) ==
    LET seen[k \in 0 .. Len(list)] ==
          IF k = 0 THEN [filter |-> filter, new |-> <<>>]
          ELSE LET r == seen[k - 1]
                   v == Target(list[k])
               IN  IF k \in ok /\ ~ Contains(r.filter, v)
                   THEN [filter |-> Remember(r.filter, v), new |-> Append(r.new, v)]
                   ELSE r
    IN  seen[Len(list)]

ReadSingle(ins) ==
    /\ Running(ins) /\ Goto(ins, "readSingle", "readShared")
    /\ LET list == single[label[ins]][at[ins]]
           r == Fresh(visited[ins], list, DOMAIN list)
       IN  /\ visited' = [visited EXCEPT ![ins] = r.filter]
           /\ keep' = [keep EXCEPT ![ins] = r.new]
    /\ UNCHANGED <<single, shared, left, label, q, at>> /\ KeepsPhase

\* Tasks that have not ended still write the shared list of their vector.
Writing(v) == Running(v) /\ pc[v] # "done"

\* The candidates of keep in turn, where the beam has room or they are nearer than its tail.
Offered(beam, ins, vs) ==
    LET after[k \in 0 .. Len(vs)] ==
          IF k = 0 THEN beam
          ELSE LET b == after[k - 1]
                   d == Dist[vs[k]][ins]
               IN  IF b.size < L \/ d < TailDist(b) THEN Push(b, vs[k], d) ELSE b
    IN  after[Len(vs)]

\* A list that its own task is writing is read up to any of its entries.
ReadSharedAndOffer(ins) ==
    /\ Running(ins) /\ Goto(ins, "readShared", "expand")
    /\ \E n \in IF Writing(at[ins]) THEN 0 .. Len(shared[at[ins]]) ELSE {Len(shared[at[ins]])} :
         LET list == shared[at[ins]]
             r == Fresh(visited[ins], list, {k \in 1 .. n : Passes(label[ins], at[ins], list[k])})
         IN  /\ visited' = [visited EXCEPT ![ins] = r.filter]
             /\ q' = [q EXCEPT ![ins] = Offered(@, ins, keep[ins] \o r.new)]
    /\ keep' = [keep EXCEPT ![ins] = <<>>]
    /\ UNCHANGED <<single, shared, left, label, at>> /\ KeepsPhase

EndLabel(ins) ==
    /\ Running(ins) /\ Goto(ins, "expand", "label")
    /\ ~ HasUnexpanded(q[ins])
    /\ shared' = [shared EXCEPT ![ins] = PrunedShared(@)]
    /\ UNCHANGED <<single, left, label, q, visited, at, keep>> /\ KeepsPhase

\* No label is left: the second loop prunes the vector's list in each of its groups.
EndTask(ins) ==
    /\ Running(ins) /\ Goto(ins, "label", "done")
    /\ \A f \in left[ins] : initVertex[f] = ins
    /\ single' = [f \in Labels |->
          IF f \in BigOf(ins) THEN [single[f] EXCEPT ![ins] = PrunedSingle(f, ins, @)] ELSE single[f]]
    /\ UNCHANGED <<shared, left, label, q, visited, at, keep>> /\ KeepsPhase
-----------------------------------------------------------------------------
\* The barrier at the end of the parallel loop.
JoinTasks ==
    /\ phase = "insert" /\ start < N
    /\ \A v \in Batch : pc[v] = "done"
    /\ phase' = "reverse" /\ reversed' = start
    /\ UNCHANGED <<index, start, single, shared, tasks, updShared, updSingle, graphs>>

\* The edges of list that lead to v, turned round to lead to u.
Turned(list, v, u) ==
    LET back[k \in 0 .. Len(list)] ==
          IF k = 0 THEN <<>>
          ELSE IF Target(list[k]) = v
               THEN Append(back[k - 1], [list[k] EXCEPT ![Len(list[k])] = u])
               ELSE back[k - 1]
    IN  back[Len(list)]

\* Mutant: the list that grew is not put on the list of those to prune.
ReverseSilently ==
    /\ phase = "reverse" /\ reversed < BatchEnd
    /\ LET u == order[reversed]
       IN  /\ single' = [f \in Labels |-> IF f \in BigOf(u)
                 THEN [v \in V |-> single[f][v] \o Turned(single[f][u], v, u)] ELSE single[f]]
           /\ shared' = [v \in V |-> shared[v] \o Turned(shared[u], v, u)]
           /\ updSingle' = updSingle \cup UNION {{f} \X Ends(single[f][u]) : f \in BigOf(u)}
           /\ updShared' = {}
    /\ reversed' = reversed + 1
    /\ UNCHANGED <<index, start, phase, tasks, graphs>>

\* One turn of the sequential loop.
Reverse ==
    /\ phase = "reverse" /\ reversed < BatchEnd
    /\ LET u == order[reversed]
       IN  /\ single' = [f \in Labels |-> IF f \in BigOf(u)
                 THEN [v \in V |-> single[f][v] \o Turned(single[f][u], v, u)] ELSE single[f]]
           /\ shared' = [v \in V |-> shared[v] \o Turned(shared[u], v, u)]
           /\ updSingle' = updSingle \cup UNION {{f} \X Ends(single[f][u]) : f \in BigOf(u)}
           /\ updShared' = updShared \cup Ends(shared[u])
    /\ reversed' = reversed + 1
    /\ UNCHANGED <<index, start, phase, tasks, graphs>>

ReverseDone ==
    /\ phase = "reverse" /\ reversed = BatchEnd
    /\ phase' = "prune"
    /\ UNCHANGED <<index, start, single, shared, tasks, reversed, updShared, updSingle, graphs>>

\* Two parallel loops, one after the other, over the distinct lists that grew.
PruneOneShared ==
    /\ phase = "prune"
    /\ \E v \in updShared :
         /\ shared' = [shared EXCEPT ![v] = PrunedShared(@)]
         /\ updShared' = updShared \ {v}
    /\ UNCHANGED <<index, start, phase, single, tasks, reversed, updSingle, graphs>>

PruneOneSingle ==
    /\ phase = "prune" /\ updShared = {}
    /\ \E fv \in updSingle :
         /\ single' = [single EXCEPT ![fv[1]][fv[2]] = PrunedSingle(fv[1], fv[2], @)]
         /\ updSingle' = updSingle \ {fv}
    /\ UNCHANGED <<index, start, phase, shared, tasks, reversed, updShared, graphs>>

NextBatch ==
    /\ phase = "prune" /\ updShared = {} /\ updSingle = {}
    /\ start' = BatchEnd
    /\ phase' = "insert" /\ reversed' = 0
    /\ UNCHANGED <<index, single, shared, tasks, updShared, updSingle, graphs>>

\* Fixed-degree arrays; unused places hold 0, in a label's graph the group's first vector.
Padded(list, bound, zero) ==
    [k \in 1 .. bound |-> IF k <= Len(list) THEN Target(list[k]) ELSE zero]

Assemble ==
    /\ phase = "insert" /\ start >= N
    /\ graphShared' = [v \in V |-> Padded(shared[v], SharedD, 0)]
    /\ graphSingle' = [f \in Big |-> [v \in Group(f) |->
          Padded(single[f][v], D[f], CHOOSE z \in Group(f) : \A w \in Group(f) : z <= w)]]
    /\ phase' = "built"
    /\ UNCHANGED <<index, start, single, shared, tasks, reversed, updShared, updSingle>>

Task(ins) == \/ StartLabel(ins) \/ Expand(ins) \/ ReadSingle(ins)
             \/ ReadSharedAndOffer(ins) \/ EndLabel(ins) \/ EndTask(ins)

Coordinator == \/ JoinTasks \/ Reverse \/ ReverseDone \/ PruneOneShared
               \/ PruneOneSingle \/ NextBatch \/ Assemble

Next == Coordinator \/ \E ins \in V : Task(ins)

\* The pool keeps some thread running while one can.
Fairness == WF_vars(Next)

Spec == Init /\ [][Next]_vars /\ Fairness
-----------------------------------------------------------------------------
\* Type invariant.
TypeOK == /\ filters \in [V -> SUBSET Labels] /\ order \in [V -> V]
          /\ start \in 1 .. N
          /\ phase \in {"insert", "reverse", "prune", "built"}
          /\ \A v \in V : /\ pc[v] \in {"label", "expand", "readSingle", "readShared", "done"}
                          /\ left[v] \subseteq Labels
                          /\ q[v].size \in 0 .. L
                          /\ \A i \in Live(q[v]) : q[v].slot[i].vid \in V
                          /\ \A k \in DOMAIN shared[v] : shared[v][k] \in Nat \X Nat \X V
          /\ \A f \in Labels, v \in V : \A k \in DOMAIN single[f][v] : single[f][v][k] \in Nat \X V
          /\ updShared \subseteq V /\ updSingle \subseteq Big \X V

(***************************************************************************)
(* A search for label f never leaves the vectors that carry f, so that no  *)
(* in-group position is looked up for a stranger: the shortcut that skips  *)
(* the label test when the stored overlap equals the vector's number of    *)
(* labels is sound on forward and reversed edges, saturated or not.        *)
(***************************************************************************)
StaysInGroup ==
    /\ TypeOK
    /\ \A v \in V : phase = "insert" /\ v \in Batch /\ pc[v] # "label" =>
          \A i \in Live(q[v]) : label[v] \in filters[q[v].slot[i].vid]
    /\ \A f \in Big, v \in V : single[f][v] # <<>> =>
          f \in filters[v] /\ \A u \in Ends(single[f][v]) : f \in filters[u]

(***************************************************************************)
(* A task reads the lists of a vector that another task of the batch is    *)
(* still inserting only if that vector is the first one of the label       *)
(* searched: the parallel loop has no other conflicting access.  And such  *)
(* a read changes nothing: whatever prefix of the list it sees, no entry   *)
(* passes the label test, since it was found before the first vector was.  *)
(***************************************************************************)
RacesAreBenign ==
    \A r, w \in V : r # w /\ Running(r) /\ Writing(w) /\ at[r] = w =>
        /\ pc[r] \in {"readSingle", "readShared"} =>
              initVertex[label[r]] = w /\ single[label[r]][w] = <<>>
        /\ pc[r] = "readShared" =>
              \A k \in DOMAIN shared[w] : ~ Passes(label[r], w, shared[w][k])

Place(v) == CHOOSE i \in V : order[i] = v

(***************************************************************************)
(* Until it is reversed, a list of the current batch only leads to vectors *)
(* earlier in the insertion order.  So the loop that walks a list while it *)
(* appends to others never appends to the list it walks, and no reversed   *)
(* edge is reversed again.                                                 *)
(***************************************************************************)
ReversesForwardEdgesOnly ==
    phase \in {"insert", "reverse"} =>
        \A v \in Batch : phase = "insert" \/ Place(v) >= reversed =>
            \A u \in Ends(shared[v]) \cup UNION {Ends(single[f][v]) : f \in Labels} :
                Place(u) < Place(v)

(***************************************************************************)
(* The assertions before the arrays are filled: no list is longer than its *)
(* graph's degree, once its batch is over.                                 *)
(***************************************************************************)
DegreesBounded ==
    phase \in {"insert", "built"} =>
        \A v \in V : start >= N \/ v \notin Batch =>
            Len(shared[v]) <= SharedD /\ \A f \in Labels : Len(single[f][v]) <= D[f]

(***************************************************************************)
(* The build ends, whatever the schedule of the threads.                   *)
(***************************************************************************)
Terminates == <>(phase = "built")
=============================================================================
