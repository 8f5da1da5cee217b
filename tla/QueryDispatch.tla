---------------------------- MODULE QueryDispatch ----------------------------
(***************************************************************************)
(* The join-free evaluation of two-label queries and of small labels:      *)
(* build_multifilter_index (src/build_index.cpp) intersects every pair of  *)
(* big labels in advance, up to a cut-off; run_hybrid_query                *)
(* (src/run_query.cpp) orders a query's labels by size and scans either    *)
(* the smaller label's vectors, or the row computed in advance, or the     *)
(* nearest clusters of the smaller label's inverted file                   *)
(* (process_filter_query of src/ivf.hpp), keeping the K best in a list     *)
(* that starts full of sentinels.  The single big label, searched in the   *)
(* graph, is module GraphSearch.                                           *)
(***************************************************************************)
EXTENDS Integers, Sequences, FiniteSets

CONSTANTS N, Labels, FilterChoices,
          Distance,             \* squared distance of each vector to the query
          K, Far,               \* number of results; the sentinel's distance, 2e9
          BigCutoff,            \* BIG_CUTOFF, the same offline and online
          BitsetCutoff,
          CutoffChoices,        \* pairs of PRECOMP_CUTOFF, offline and online
          WordSize,             \* 64 bits to a word of the scratch bitmap
          Clusters, MemberChoices, CentroidDist,  \* the inverted files
          WidthChoices          \* values of NUM_CLUSTERS

V == 0 .. N - 1

ASSUME DispatchAssumption ==
    /\ N \in Nat \ {0} /\ K \in Nat \ {0} /\ WordSize \in Nat \ {0}
    /\ Labels \subseteq Nat /\ IsFiniteSet(Labels)
    /\ Clusters \subseteq Nat /\ IsFiniteSet(Clusters)
    /\ Far \in Nat /\ Distance \in [V -> Nat] /\ \A v \in V : Distance[v] < Far
    /\ BigCutoff \in Nat /\ CutoffChoices \subseteq Nat \X Nat
    /\ FilterChoices \subseteq [V -> SUBSET Labels]
    /\ MemberChoices \subseteq [V -> Clusters]
    /\ CentroidDist \in [Clusters -> Nat] /\ WidthChoices \subseteq Nat

VARIABLES filters, member, cutoff, numClusters,   \* data set, inverted files, parameters
          phase, i, j, bits, precomp,   \* the offline loops
          query, case, todo, best,      \* the query being answered
          near, clusters,               \* clusters to come, number visited
          results

data == <<filters, member, cutoff, numClusters>>
offline == <<i, j, bits, precomp>>
dispatchVars == <<data, offline, phase, query, case, todo, best, near, clusters, results>>

\* The members of S in the order R: at k, the one with k - 1 before it.
InOrder(S, R) == [k \in 1 .. Cardinality(S) |->
                     CHOOSE v \in S : Cardinality({w \in S : <<w, v>> \in R}) = k - 1]

Ascending(S) == InOrder(S, {p \in S \X S : p[1] < p[2]})

\* A scan of a row that takes the members of T.
Only(row, T) == LET at == Ascending({k \in DOMAIN row : row[k] \in T})
                IN  [m \in DOMAIN at |-> row[at[m]]]

Group(f) == {v \in V : f \in filters[v]}
Row(f) == Ascending(Group(f))
Size(f) == Cardinality(Group(f))
big == Ascending({f \in Labels : Size(f) > BigCutoff})
ibig(f) == LET row == big IN CHOOSE k \in DOMAIN row : row[k] = f

TooLarge == <<-1>>      \* "special value denoting too large"

Sentinel == <<Far, -1>>
NoneYet == [k \in 1 .. K |-> Sentinel]

Below(p, r) == p[1] < r[1] \/ (p[1] = r[1] /\ p[2] < r[2])

\* pop_back and a sorted insert, when v is nearer than the last entry.
Consider(b, v) ==
    LET new == <<Distance[v], v>>
        at  == 1 + Cardinality({k \in 1 .. K - 1 : Below(b[k], new)})
    IN  IF Distance[v] < b[K][1]
        THEN [k \in 1 .. K |-> IF k < at THEN b[k] ELSE IF k = at THEN new ELSE b[k - 1]]
        ELSE b
-----------------------------------------------------------------------------
DispatchInit == /\ filters \in FilterChoices /\ member \in MemberChoices /\ cutoff \in CutoffChoices
        /\ numClusters \in WidthChoices
        /\ phase = "bits" /\ i = 1 /\ j = 1 /\ bits = {} /\ precomp = <<>>
        /\ query = <<>> /\ case = "" /\ todo = <<>> /\ best = NoneYet
        /\ near = <<>> /\ clusters = 0 /\ results = <<>>

Answering == UNCHANGED <<query, case, todo, best, near, clusters, results>>

SetBits == /\ phase = "bits" /\ i <= Len(big)
           /\ bits' = bits \cup Group(big[i])
           /\ j' = i + 1 /\ phase' = "pairs"
           /\ UNCHANGED <<data, i, precomp>> /\ Answering

\* The scan of the second label stops at the first match over the cut-off.
Intersect == /\ phase = "pairs" /\ j <= Len(big)
             /\ LET hits == Only(Row(big[j]), bits)
                IN  precomp' = Append(precomp, IF Len(hits) > cutoff[1] THEN TooLarge ELSE hits)
             /\ j' = j + 1
             /\ UNCHANGED <<data, phase, i, bits>> /\ Answering

\* Mutant: only the bit of each vector's word that comes first is cleared.
ClearBitsFirstOnly ==
    /\ phase = "pairs" /\ j > Len(big)
    /\ bits' = {v \in bits : v % WordSize # 0}
    /\ i' = i + 1 /\ phase' = "bits"
    /\ UNCHANGED <<data, j, precomp>> /\ Answering

\* Whole words are cleared.
ClearBits == /\ phase = "pairs" /\ j > Len(big)
             /\ bits' = {v \in bits : \A w \in Group(big[i]) : v \div WordSize # w \div WordSize}
             /\ i' = i + 1 /\ phase' = "bits"
             /\ UNCHANGED <<data, j, precomp>> /\ Answering

Load == /\ phase = "bits" /\ i > Len(big)
        /\ phase' = "idle"
        /\ UNCHANGED <<data, offline>> /\ Answering
-----------------------------------------------------------------------------
\* pos_precomp: pairs are numbered row by row.
Pos(a, b) == LET all == DOMAIN big
             IN  1 + Cardinality({p \in all \X all :
                                     p[1] < p[2] /\ (p[1] < a \/ (p[1] = a /\ p[2] < b))})

UsePrecomp(row) == Len(row) <= cutoff[2] /\ row # TooLarge

\* A bitset of the label where it is large, the vector's own labels where it is not.
Has(f, v) == IF Size(f) > BitsetCutoff THEN v \in Group(f) ELSE f \in filters[v]
Having(f) == {v \in V : Has(f, v)}

Smaller(x, y) == Size(x) < Size(y) \/ (Size(x) = Size(y) /\ x < y)

Ordered(x, y) == IF Smaller(y, x) THEN <<y, x>> ELSE <<x, y>>

Scan(c, candidates) == /\ case' = c /\ todo' = candidates
                       /\ phase' = "scan" /\ near' = <<>>

\* The inverted file's clusters, the one with the nearest centroid first.
Nearer == {p \in Clusters \X Clusters :
              Below(<<CentroidDist[p[1]], p[1]>>, <<CentroidDist[p[2]], p[2]>>)}
NearestFirst == InOrder(Clusters, Nearer)

\* A worker is free to take the next query, with a list of its own.
Take == /\ phase \in {"idle", "answered"}
        /\ best' = NoneYet /\ clusters' = 0 /\ results' = <<>>
        /\ UNCHANGED <<data, offline>>

AskOne == /\ Take
          /\ \E a \in Labels : /\ Size(a) <= BigCutoff
                               /\ query' = <<a>> /\ Scan("brute", Row(a))

AskTwo ==
    /\ Take
    /\ \E x, y \in Labels :
          LET q == Ordered(x, y)
              a == q[1]
              b == q[2]
              lo == IF ibig(a) < ibig(b) THEN ibig(a) ELSE ibig(b)
              row == precomp[Pos(lo, ibig(a) + ibig(b) - lo)]
          IN  /\ x # y /\ query' = q
              /\ \/ /\ Size(a) <= BigCutoff
                    /\ Scan("brute2", Only(Row(a), Having(b)))
                 \/ /\ Size(a) > BigCutoff /\ UsePrecomp(row)
                    /\ Scan("precomp", row)
                 \/ /\ Size(a) > BigCutoff /\ ~ UsePrecomp(row)
                    /\ case' = "ivf" /\ todo' = <<>> /\ phase' = "cluster"
                    /\ near' = NearestFirst

\* Mutant: a cluster's members are taken without the test of the second label.
NextClusterUnfiltered ==
    /\ phase = "cluster" /\ near # <<>> /\ (clusters = 0 \/ clusters < numClusters)
    /\ todo' = Only(Row(query[1]), {v \in V : member[v] = Head(near)})
    /\ near' = Tail(near) /\ clusters' = clusters + 1
    /\ phase' = "scan"
    /\ UNCHANGED <<data, offline, query, case, best, results>>

\* The number of clusters is tested after the first one has been visited.
NextCluster ==
    /\ phase = "cluster" /\ near # <<>> /\ (clusters = 0 \/ clusters < numClusters)
    /\ todo' = Only(Row(query[1]), {v \in Having(query[2]) : member[v] = Head(near)})
    /\ near' = Tail(near) /\ clusters' = clusters + 1
    /\ phase' = "scan"
    /\ UNCHANGED <<data, offline, query, case, best, results>>

Step == /\ phase = "scan" /\ todo # <<>>
        /\ best' = Consider(best, Head(todo))
        /\ todo' = Tail(todo)
        /\ UNCHANGED <<data, offline, phase, query, case, near, clusters, results>>

ScanDone == /\ phase = "scan" /\ todo = <<>> /\ case = "ivf"
            /\ phase' = "cluster"
            /\ UNCHANGED <<data, offline>> /\ Answering

\* Mutant: the number of clusters is tested before the first one is visited.
ReportTestedFirst == /\ \/ phase = "scan" /\ todo = <<>> /\ case # "ivf"
                        \/ phase = "cluster" /\ (near = <<>> \/ clusters >= numClusters)
                     /\ results' = [k \in 1 .. K |-> best[k][2]]
                     /\ phase' = "answered"
                     /\ UNCHANGED <<data, offline, query, case, todo, best, near, clusters>>

Report == /\ \/ phase = "scan" /\ todo = <<>> /\ case # "ivf"
             \/ phase = "cluster" /\ (near = <<>> \/ (clusters > 0 /\ clusters >= numClusters))
          /\ results' = [k \in 1 .. K |-> best[k][2]]
          /\ phase' = "answered"
          /\ UNCHANGED <<data, offline, query, case, todo, best, near, clusters>>

DispatchNext == \/ SetBits \/ Intersect \/ ClearBits \/ Load
        \/ AskOne \/ AskTwo \/ NextCluster \/ Step \/ ScanDone \/ Report

DispatchSpec == DispatchInit /\ [][DispatchNext]_dispatchVars
-----------------------------------------------------------------------------
\* Type invariant.
DispatchTypeOK == /\ phase \in {"bits", "pairs", "idle", "scan", "cluster", "answered"}
          /\ case \in {"", "brute", "brute2", "precomp", "ivf"}
          /\ bits \subseteq V /\ Len(best) = K
          /\ i \in 1 .. Len(big) + 1 /\ clusters \in 0 .. Cardinality(Clusters)
          /\ todo \in Seq(V)

Matching == {v \in V : \A k \in DOMAIN query : query[k] \in filters[v]}
Reported == {results[k] : k \in DOMAIN results} \ {-1}

(***************************************************************************)
(* Whatever the two cut-offs are, the row a two-label query finds is its   *)
(* own: the pairs are numbered alike offline and online, a row computed in *)
(* advance is the whole intersection or says it is too large, and nothing  *)
(* of one label is left in the scratch bitmap for the next.                *)
(***************************************************************************)
RowsAreIntersections ==
    phase \notin {"bits", "pairs"} =>
        /\ Len(precomp) = (Len(big) * (Len(big) - 1)) \div 2
        /\ \A x, y \in DOMAIN big : x < y =>
              LET both == Group(big[x]) \cap Group(big[y])
              IN  precomp[Pos(x, y)] = IF Cardinality(both) > cutoff[1] THEN TooLarge
                                       ELSE Ascending(both)

(***************************************************************************)
(* Every reported vector carries all the query's labels and is reported    *)
(* once, nearest first, with the unused places at the end.                 *)
(***************************************************************************)
AnswersMatch ==
    phase = "answered" =>
        /\ Reported \subseteq Matching
        /\ \A k \in 2 .. K : /\ results[k - 1] = -1 => results[k] = -1
                             /\ results[k] # -1 => /\ results[k] # results[k - 1]
                                                   /\ Distance[results[k - 1]] <= Distance[results[k]]

\* The clusters a query may visit: the nearest one, or as many as numClusters says.
Visited == {c \in Clusters : LET before == {d \in Clusters : <<d, c>> \in Nearer}
                              IN  before = {} \/ Cardinality(before) < numClusters}

(***************************************************************************)
(* The answer is exact: K matching vectors or all of them, none of the     *)
(* others strictly nearer.  In the inverted file this holds among the      *)
(* clusters visited, the nearest NUM_CLUSTERS and at least one.            *)
(***************************************************************************)
AnswersExact ==
    LET eligible == {v \in Matching : case = "ivf" => member[v] \in Visited}
        found    == Cardinality(eligible)
    IN  phase = "answered" =>
          /\ Reported \subseteq eligible
          /\ Cardinality(Reported) = IF found < K THEN found ELSE K
          /\ \A v \in eligible \ Reported, r \in Reported : Distance[r] <= Distance[v]
=============================================================================
