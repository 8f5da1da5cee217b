------------------------------ MODULE MCTables ------------------------------
(***************************************************************************)
(* The data structures that BigFANN's searches and builds stand on, in one *)
(* run; `which' says the one a behaviour is about, the others rest.        *)
(*  - dispatch: five vectors, two at equal distance from the query; label  *)
(*    1 on the first four, label 2 on any vectors, label 3 on any but 0;   *)
(*    cut-offs online below, at and above the one offline; words of two    *)
(*    bits, so that the bits of a word differ in label.                    *)
(*  - kmeans: every data set of five points up to MaxValue that starts    *)
(*    with it, in two clusters; two threads with chunks of three and of    *)
(*    two points, and fewer iterations than some of the data sets need.    *)
(*  - labels: 16 vectors; label 0 on any one to three of them, so that its *)
(*    table of 4 or 8 slots has collisions and probes around its end; rows *)
(*    of up to three labels, not in ascending order in the file; a label   *)
(*    no vector carries.                                                   *)
(*  - sets: three sets over two rows of a graph that overlap.              *)
(*  - graph: every graph of NV vertices, directed or not.                  *)
(*  - beam: the client of the search beam in MCPQueue.                    *)
(*  - oldqueue: every sequence of pushes and batches of five candidates.   *)
(***************************************************************************)
EXTENDS MCPQueue, QueryDispatch, KMeans, LabelTables, FiniteSetsExt, TLC

CONSTANTS MaxValue,                                                     \* kmeans
          Name, Nothing, MAX_DEGREE, Bounds, BoundedLinear, ContainsLinear, Width,
          NV, Thread, BlockSize,                                        \* graph
          Candidate                                                     \* oldqueue

VARIABLES which,
          mem, avail, set, val,
          graph, reverse, maxDegree, pass, vertices, job, degrees, offsets, new, want,
          entry, nextIdx, offered, visited

setVars == <<mem, avail, set, val>>
csrVars == <<graph, reverse, maxDegree, pass, vertices, job, degrees, offsets, new, want>>
oldVars == <<entry, nextIdx, offered, visited>>
-----------------------------------------------------------------------------
Vectors == 0 .. 4
Distances == [v \in Vectors |-> <<5, 2, 8, 2, 1>>[v + 1]]
AnySets == {[v \in Vectors |-> (IF v < 4 THEN {1} ELSE {}) \cup (IF v \in A THEN {2} ELSE {})
                            \cup (IF v \in C THEN {3} ELSE {})] : A \in SUBSET Vectors, C \in SUBSET (Vectors \ {0})}
Cutoffs == {<<1, 2>>, <<2, 1>>, <<0, 0>>}
ThreeMembers == {[v \in Vectors |-> 1 + (v % 3)]}
Centroids == [c \in Clusters |-> IF c = 1 THEN 3 ELSE 2]

AllData == {d \in [0 .. NumPoints - 1 -> 0 .. MaxValue] : d[0] = MaxValue}

Carriers == UNION {kSubset(n, 0 .. NumRows - 1) : n \in 1 .. 3}
Matrices == {[v \in 0 .. NumRows - 1 |->
                 (IF v \in {3, 7, 15} THEN <<2>> ELSE <<>>) \o (IF v \in {0, 7, 8, 15} THEN <<1>> ELSE <<>>)
                   \o (IF v \in G THEN <<0>> ELSE <<>>)] : G \in Carriers}

GraphRows == <<<<1, <<0, 2, 3>>>>, <<0, <<1, 3>>>>>>

Adjacencies == {a \in [0 .. NV - 1 -> SUBSET (0 .. NV - 1)] : \A v \in 0 .. NV - 1 : v \notin a[v]}
Graphs == {g \in [directed : BOOLEAN, needReverse : BOOLEAN, adj : Adjacencies] :
             g.directed \/ \A v, u \in DOMAIN g.adj : v \in g.adj[u] => u \in g.adj[v]}

VS == INSTANCE VertexSets WITH Rows <- GraphRows, Vid <- 0 .. 3
CG == INSTANCE CSRGraph WITH todo <- vertices, Inputs <- Graphs
OQ == INSTANCE OldPQueue WITH pushed <- offered
-----------------------------------------------------------------------------
AtRest(x) == x = Nothing
DispatchRests ==
    /\ AtRest(filters) /\ AtRest(member) /\ AtRest(cutoff) /\ AtRest(numClusters) /\ phase = "bits" /\ AtRest(i)
    /\ AtRest(j) /\ AtRest(bits) /\ AtRest(precomp) /\ AtRest(query) /\ AtRest(case) /\ AtRest(todo)
    /\ AtRest(best) /\ AtRest(near) /\ AtRest(clusters) /\ AtRest(results)
KMeansRests ==
    /\ AtRest(points) /\ AtRest(centroids) /\ AtRest(membership) /\ AtRest(iter) /\ AtRest(delta)
    /\ AtRest(at) /\ AtRest(partialLen) /\ AtRest(partialSum) /\ round = "rest" /\ AtRest(ivf)
LabelsRest ==
    /\ AtRest(rows) /\ AtRest(indptr) /\ AtRest(indices) /\ AtRest(seen) /\ stage = "rest" /\ AtRest(row) /\ AtRest(label)
SetsRest == AtRest(mem) /\ AtRest(avail) /\ AtRest(set) /\ AtRest(val)
GraphRests ==
    /\ AtRest(graph) /\ AtRest(reverse) /\ AtRest(maxDegree) /\ AtRest(pass) /\ AtRest(vertices)
    /\ AtRest(job) /\ AtRest(degrees) /\ AtRest(offsets) /\ AtRest(new) /\ AtRest(want)
OldQueueRests == AtRest(entry) /\ AtRest(nextIdx) /\ AtRest(offered) /\ AtRest(visited)

AllInit ==
    /\ which \in {"beam", "dispatch", "kmeans", "labels", "sets", "graph", "oldqueue"}
    /\ Init
    /\ IF which = "dispatch" THEN DispatchInit ELSE DispatchRests
    /\ IF which = "kmeans" THEN KMeansInit ELSE KMeansRests
    /\ IF which = "labels" THEN TablesInit ELSE LabelsRest
    /\ IF which = "sets" THEN VS!SetInit ELSE SetsRest
    /\ IF which = "graph" THEN CG!CsrInit ELSE GraphRests
    /\ IF which = "oldqueue" THEN OQ!OldInit ELSE OldQueueRests

AllNext ==
    /\ UNCHANGED which
    /\ \/ which = "beam" /\ Next
          /\ UNCHANGED <<dispatchVars, kmeansVars, tableVars, setVars, csrVars, oldVars>>
       \/ which = "dispatch" /\ DispatchNext
          /\ UNCHANGED <<vars, kmeansVars, tableVars, setVars, csrVars, oldVars>>
       \/ which = "kmeans" /\ KMeansNext
          /\ UNCHANGED <<vars, dispatchVars, tableVars, setVars, csrVars, oldVars>>
       \/ which = "labels" /\ TablesNext
          /\ UNCHANGED <<vars, dispatchVars, kmeansVars, setVars, csrVars, oldVars>>
       \/ which = "sets" /\ VS!SetNext
          /\ UNCHANGED <<vars, dispatchVars, kmeansVars, tableVars, csrVars, oldVars>>
       \/ which = "graph" /\ CG!CsrNext
          /\ UNCHANGED <<vars, dispatchVars, kmeansVars, tableVars, setVars, oldVars>>
       \/ which = "oldqueue" /\ OQ!OldNext
          /\ UNCHANGED <<vars, dispatchVars, kmeansVars, tableVars, setVars, csrVars>>

AllSpec ==
    /\ AllInit
    /\ [][AllNext]_<<which, vars, dispatchVars, kmeansVars, tableVars, setVars, csrVars, oldVars>>

Names == Permutations(Name)
-----------------------------------------------------------------------------
\* Sets computed in place, in shared and in pooled buffers, are the sets (VertexSet).
SetsAreExact == which = "sets" => VS!SetsAreExact

\* Arrays in memory, symmetrized by threads or oriented, are the graph (GraphT).
ArraysAreTheGraph == which = "graph" => CG!ArraysAreTheGraph

\* The older queue holds the nearest pushed and its cursor the first not visited.
OldQueueExact == which = "oldqueue" => OQ!OldQueueExact
=============================================================================
