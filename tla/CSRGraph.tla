------------------------------- MODULE CSRGraph -------------------------------
(***************************************************************************)
(* The graph of src/graph.hpp and src/graph.cpp in memory: row pointers    *)
(* and column indices, the reverse graph, and the two conversions that     *)
(* replace the arrays, symmetrize (parallel, two passes that share         *)
(* counters through fetch_and_add) and orientation.  Prefix sums are those *)
(* of src/scan.hpp.  Reading and writing of files is left out.             *)
(***************************************************************************)
EXTENDS Integers, SequencesExt

CONSTANTS NV, Thread,
          BlockSize,            \* of parallel_prefix_sum, 2^20 in the code
          Inputs,               \* graphs in files: [directed, needReverse, adj]
          Nothing

Vertex == 0 .. NV - 1

VARIABLES graph,                \* vertices and edges, and is_directed_
          reverse,              \* reverse_vertices and reverse_edges, those of an
                                \* undirected graph shared with graph, or Nothing
          maxDegree,
          pass,                 \* "idle", or the loop of symmetrize that runs
          todo, job,            \* the vertices of the loop nobody took; what each thread is at
          degrees, offsets, new,
          want                  \* the adjacency there should be (not in the code)

csrVars == <<graph, reverse, maxDegree, pass, todo, job, degrees, offsets, new, want>>

(* parallel_prefix_sum: each block is summed, the sums are accumulated,    *)
(* and each block is written from its start.                               *)
PrefixSum(in) ==
    LET numBlocks == (NV + BlockSize - 1) \div BlockSize
        localSum(b) == MapThenSumSet(LAMBDA j : in[j], b * BlockSize .. Min({(b + 1) * BlockSize, NV}) - 1)
        bulkPrefix(b) == MapThenSumSet(localSum, 0 .. b - 1)
    IN  [i \in 0 .. NV |->
            IF i = NV THEN bulkPrefix(numBlocks)
            ELSE bulkPrefix(i \div BlockSize)
                   + MapThenSumSet(LAMBDA j : in[j], BlockSize * (i \div BlockSize) .. i - 1)]

Degree(g, v) == g.vertices[v + 1] - g.vertices[v]
Neighbors(g, v) == SubSeq(g.edges, g.vertices[v] + 1, g.vertices[v + 1])
Degrees(g) == [v \in Vertex |-> Degree(g, v)]

RECURSIVE Bisected(_, _, _, _)         \* binary_search; edge ids are signed
Bisected(g, key, l, r) ==
    /\ r >= l
    /\ LET mid == l + (r - l) \div 2
           value == g.edges[mid + 1]
       IN  \/ value = key
           \/ value < key /\ Bisected(g, key, mid + 1, r)
           \/ value > key /\ Bisected(g, key, l, mid - 1)

IsNeighbor(g, v, u) == Bisected(g, u, g.vertices[v], g.vertices[v + 1] - 1)
IsConnected(g, v, u) ==
    IF Degree(g, v) < Degree(g, u) THEN IsNeighbor(g, v, u) ELSE IsNeighbor(g, u, v)

Ascending(S) == CHOOSE q \in [1 .. Cardinality(S) -> S] : \A i \in 1 .. Cardinality(S) - 1 : q[i] < q[i + 1]
-----------------------------------------------------------------------------
Rows(list) == FlattenSeq([i \in 1 .. NV |-> list[i - 1]])       \* one after another

CsrOf(list, directed) ==
    [vertices |-> PrefixSum([v \in Vertex |-> Len(list[v])]), edges |-> Rows(list),
     directed |-> directed]

\* build_reverse_graph: sources are visited in order
Reversed(g) ==
    CsrOf([u \in Vertex |-> SelectSeq([i \in 1 .. NV |-> i - 1],
                                      LAMBDA v : \E i \in DOMAIN Neighbors(g, v) : Neighbors(g, v)[i] = u)], TRUE)

Neither == [v |-> Nothing, i |-> 0, at |-> "free", place |-> 0]

\* load_graph: sorted rows without loops or repetitions
CsrInit ==
    \E in \in Inputs :
       LET g == CsrOf([v \in Vertex |-> Ascending(in.adj[v])], in.directed) IN
       /\ graph = g
       /\ reverse = IF ~in.directed THEN g ELSE IF in.needReverse THEN Reversed(g) ELSE Nothing
       /\ maxDegree = Max({Degree(g, v) : v \in Vertex})
       /\ pass = "idle" /\ todo = {} /\ job = [t \in Thread |-> Neither]
       /\ degrees = [v \in Vertex |-> 0] /\ offsets = [v \in Vertex |-> 0] /\ new = Nothing
       /\ want = in.adj

Symmetrize ==
    /\ pass = "idle"
    /\ pass' = "count" /\ todo' = Vertex /\ degrees' = Degrees(graph)
    /\ UNCHANGED <<graph, reverse, maxDegree, job, offsets, new, want>>

TakeVertex(t) ==
    /\ pass # "idle" /\ job[t].at = "free"
    /\ \E v \in todo : /\ todo' = todo \ {v}
                       /\ job' = [job EXCEPT ![t] = [Neither EXCEPT !.v = v, !.at = "edge"]]
    /\ UNCHANGED <<graph, reverse, maxDegree, pass, degrees, offsets, new, want>>

Row(t) == Neighbors(graph, job[t].v)
Target(t) == Row(t)[job[t].i + 1]
MoveOn(t) == job' = [job EXCEPT ![t] = [@ EXCEPT !.i = @ + 1, !.at = "edge"]]

LeaveVertex(t) ==
    /\ job[t].at = "edge" /\ job[t].i = Len(Row(t))
    /\ job' = [job EXCEPT ![t] = Neither]
    /\ UNCHANGED <<graph, reverse, maxDegree, pass, todo, degrees, offsets, new, want>>

\* The search of v among the neighbors of u: is the edge there already?
Look(t) ==
    /\ job[t].at = "edge" /\ job[t].i < Len(Row(t))
    /\ IF IsNeighbor(graph, Target(t), job[t].v) THEN MoveOn(t)
       ELSE job' = [job EXCEPT ![t].at = "add"]
    /\ UNCHANGED <<graph, reverse, maxDegree, pass, todo, degrees, offsets, new, want>>

CountEdge(t) ==
    /\ pass = "count" /\ job[t].at = "add"
    /\ degrees' = [degrees EXCEPT ![Target(t)] = @ + 1]
    /\ MoveOn(t)
    /\ UNCHANGED <<graph, reverse, maxDegree, pass, todo, offsets, new, want>>

ClaimPlaceTorn(t) ==            \* mutant: the addition of two threads at once may be one
    /\ pass = "place" /\ job[t].at = "add"
    /\ job' = [job EXCEPT ![t] = [@ EXCEPT !.at = "write", !.place = offsets[Target(t)]]]
    /\ \/ offsets' = [offsets EXCEPT ![Target(t)] = @ + 1]
       \/ /\ \E o \in Thread \ {t} : job[o].at = "add" /\ Target(o) = Target(t)
          /\ UNCHANGED offsets
    /\ UNCHANGED <<graph, reverse, maxDegree, pass, todo, degrees, new, want>>

ClaimPlace(t) ==
    /\ pass = "place" /\ job[t].at = "add"
    /\ job' = [job EXCEPT ![t] = [@ EXCEPT !.at = "write", !.place = offsets[Target(t)]]]
    /\ offsets' = [offsets EXCEPT ![Target(t)] = @ + 1]
    /\ UNCHANGED <<graph, reverse, maxDegree, pass, todo, degrees, new, want>>

WriteEdge(t) ==
    /\ job[t].at = "write"
    /\ new' = [new EXCEPT !.edges[new.vertices[Target(t)] + job[t].place + 1] = job[t].v]
    /\ MoveOn(t)
    /\ UNCHANGED <<graph, reverse, maxDegree, pass, todo, degrees, offsets, want>>

LoopDone == todo = {} /\ \A t \in Thread : job[t].at = "free"

\* new row pointers from the degrees, the old rows copied to their start
EndCount ==
    /\ pass = "count" /\ LoopDone
    /\ LET rows == PrefixSum(degrees) IN
       new' = [vertices |-> rows,
               edges |-> [e \in 1 .. rows[NV] |->
                             LET v == CHOOSE x \in Vertex : rows[x] < e /\ e <= rows[x + 1] IN
                             IF e - rows[v] <= Degree(graph, v) THEN Neighbors(graph, v)[e - rows[v]] ELSE -1],   \* not written yet
               directed |-> graph.directed]
    /\ offsets' = Degrees(graph)
    /\ pass' = "place" /\ todo' = Vertex
    /\ UNCHANGED <<graph, reverse, maxDegree, job, degrees, want>>

(* The new arrays replace the old ones and each row is sorted.  The        *)
(* reverse graph, if any, is stale then, or freed where it was shared, and *)
(* not to be read (Nothing); max_degree stays as it was.                   *)
SortedRows(g) ==
    [g EXCEPT !.edges = Rows([v \in Vertex |-> SortSeq(Neighbors(g, v), LAMBDA x, y : x < y)])]

EndPlace ==
    /\ pass = "place" /\ LoopDone
    /\ graph' = SortedRows(new)
    /\ reverse' = Nothing
    /\ pass' = "idle" /\ new' = Nothing
    /\ degrees' = [v \in Vertex |-> 0] /\ offsets' = [v \in Vertex |-> 0]
    /\ want' = [v \in Vertex |-> want[v] \cup {u \in Vertex : v \in want[u]}]
    /\ UNCHANGED <<maxDegree, todo, job>>

(* orientation: each edge is kept at the end of smaller degree, or of the  *)
(* smaller id.  Threads write rows of their own only.                      *)
Outward(g, src, dst) ==
    \/ Degree(g, dst) > Degree(g, src)
    \/ Degree(g, dst) = Degree(g, src) /\ dst > src

Orientation ==
    /\ pass = "idle" /\ ~graph.directed
    /\ graph' = CsrOf([v \in Vertex |-> SelectSeq(Neighbors(graph, v), LAMBDA u : Outward(graph, v, u))], TRUE)
    /\ maxDegree' = Max({Degree(graph', v) : v \in Vertex})
    /\ reverse' = Nothing
    /\ want' = LET deg == [v \in Vertex |-> Cardinality(want[v])] IN
               [v \in Vertex |-> {u \in want[v] : deg[v] < deg[u] \/ (deg[v] = deg[u] /\ v < u)}]
    /\ UNCHANGED <<pass, todo, job, degrees, offsets, new>>

CsrNext ==
    \/ Symmetrize \/ EndCount \/ EndPlace \/ Orientation
    \/ \E t \in Thread : TakeVertex(t) \/ Look(t) \/ CountEdge(t) \/ ClaimPlace(t)
                           \/ WriteEdge(t) \/ LeaveVertex(t)

-----------------------------------------------------------------------------
Holds(g, adj) ==
    /\ g.vertices[NV] = Len(g.edges)
    /\ \A v \in Vertex : Neighbors(g, v) = Ascending(adj[v])

(* Between conversions the arrays are exactly the graph: rows in order,    *)
(* no edge lost, doubled or written over; the reverse graph is the         *)
(* transpose while there is one that may be read; max_degree is the        *)
(* greatest degree wherever edges go one way; is_neighbor agrees, and      *)
(* is_connected wherever edges go both ways.                               *)
ArraysAreTheGraph ==
    pass = "idle" =>
       /\ Holds(graph, want)
       /\ reverse # Nothing
             => Holds(reverse, [v \in Vertex |-> {u \in Vertex : v \in want[u]}])
       /\ (\E x, y \in Vertex : x \in want[y] /\ y \notin want[x])
             => maxDegree = Max({Cardinality(want[v]) : v \in Vertex})
       /\ \A v, u \in Vertex : v # u =>
             /\ IsNeighbor(graph, v, u) <=> u \in want[v]
             /\ (\A x, y \in Vertex : x \in want[y] <=> y \in want[x])
                   => (IsConnected(graph, v, u) <=> u \in want[v])
=============================================================================
