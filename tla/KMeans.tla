------------------------------- MODULE KMeans -------------------------------
(***************************************************************************)
(* The clustering behind the inverted files: kmeans_cluster of             *)
(* src/ivf.hpp.  The threads of a team assign the points of their chunks   *)
(* to the nearest centroid and sum them up in partial arrays of their own; *)
(* the main thread then reduces the arrays and moves the centroids, until  *)
(* an iteration moves no point or the number of iterations is used up.     *)
(* Points have one coordinate of type uint8, whose means are truncated.    *)
(***************************************************************************)
EXTENDS Integers, Sequences, FiniteSets

CONSTANTS NumPoints, ClusterSize,   \* group.size(), CLUSTER_SIZE
          NumThreads, MaxIter,      \* size of the team, max_iter
          DataChoices               \* data sets TLC starts from

Points == 0 .. NumPoints - 1
Threads == 0 .. NumThreads - 1

ASSUME KMeansAssumption ==
    /\ NumPoints \in Nat \ {0} /\ ClusterSize \in Nat \ {0}
    /\ NumThreads \in Nat \ {0} /\ MaxIter \in Nat \ {0}
    /\ DataChoices \subseteq [Points -> Nat]

VARIABLES points, centroids, membership,
          iter, delta,                  \* iterations ended; points moved in this one
          at,                           \* the point each thread is at
          partialLen, partialSum,       \* partial_new_centers_len, partial_new_centers
          round, ivf

partials == <<partialLen, partialSum>>
kmeansVars == <<points, centroids, membership, iter, delta, at, partials, round, ivf>>

NumClusters == (NumPoints + ClusterSize - 1) \div ClusterSize
ClusterIds == 0 .. NumClusters - 1

\* schedule(static): contiguous chunks whose lengths differ by one at most.
ChunkStart(t) ==
    LET short == NumPoints \div NumThreads
        spare == NumPoints % NumThreads
    IN  t * short + (IF t < spare THEN t ELSE spare)

ChunkEnd(t) == IF t = NumThreads - 1 THEN NumPoints ELSE ChunkStart(t + 1)

DistTo(pt, c) == (points[pt] - c) * (points[pt] - c)

\* The first of the nearest centroids.
NearestTo(cs, pt) ==
    CHOOSE c \in ClusterIds : \A d \in ClusterIds :
        \/ DistTo(pt, cs[c]) < DistTo(pt, cs[d])
        \/ DistTo(pt, cs[c]) = DistTo(pt, cs[d]) /\ c <= d

Zero == [t \in Threads |-> [c \in ClusterIds |-> 0]]

KMeansInit ==
    /\ points \in DataChoices
    /\ centroids = [c \in ClusterIds |-> points[c]]
    /\ membership = [pt \in Points |-> 0]
    /\ iter = 0 /\ delta = 0
    /\ at = [t \in Threads |-> ChunkStart(t)]
    /\ partialLen = Zero /\ partialSum = Zero
    /\ round = "assign" /\ ivf = <<>>

Assign(t) ==
    LET pt    == at[t]
        index == NearestTo(centroids, pt)
    IN  /\ round = "assign" /\ pt < ChunkEnd(t)
        /\ delta' = delta + (IF membership[pt] # index THEN 1 ELSE 0)
        /\ membership' = [membership EXCEPT ![pt] = index]
        /\ partialLen' = [partialLen EXCEPT ![t][index] = @ + 1]
        /\ partialSum' = [partialSum EXCEPT ![t][index] = @ + points[pt]]
        /\ at' = [at EXCEPT ![t] = pt + 1]
        /\ UNCHANGED <<points, centroids, iter, round, ivf>>

Joined == round = "assign" /\ \A t \in Threads : at[t] = ChunkEnd(t)

\* The sum of x[0], ..., x[n - 1].
SumTo(x, n) ==
    LET s[k \in 0 .. n] == IF k = 0 THEN 0 ELSE s[k - 1] + x[k - 1]
    IN  s[n]

Total(partial, c) == SumTo([t \in Threads |-> partial[t][c]], NumThreads)

\* A cluster that lost all its points keeps its centroid.
NewCentroids == [c \in ClusterIds |-> IF Total(partialLen, c) > 0
                                    THEN Total(partialSum, c) \div Total(partialLen, c)
                                    ELSE centroids[c]]

\* The next iteration of the loop, or its end.
NextIteration(threshold) ==
    /\ iter' = iter + 1
    /\ round' = IF delta <= threshold \/ iter + 1 = MaxIter THEN "clustered" ELSE "assign"
    /\ at' = [t \in Threads |-> ChunkStart(t)]
    /\ delta' = 0
    /\ UNCHANGED <<points, membership, ivf>>

\* Mutant: the partial arrays are not reset.
ReduceAndKeep == /\ Joined
                 /\ centroids' = NewCentroids /\ UNCHANGED partials
                 /\ NextIteration(0)

\* Mutant: an iteration that moved one point is taken for the last.
ReduceEarly == /\ Joined
               /\ centroids' = NewCentroids
               /\ partialLen' = Zero /\ partialSum' = Zero
               /\ NextIteration(1)

Reduce == /\ Joined
          /\ centroids' = NewCentroids
          /\ partialLen' = Zero /\ partialSum' = Zero
          /\ NextIteration(0)

\* The inverted file: each point is appended to the list of its cluster.
Posting(c) ==
    LET list[n \in 0 .. NumPoints] ==
          IF n = 0 THEN <<>>
          ELSE IF membership[n - 1] = c THEN Append(list[n - 1], n - 1) ELSE list[n - 1]
    IN  list[NumPoints]

BuildLists == /\ round = "clustered"
              /\ ivf' = [c \in ClusterIds |-> Posting(c)]
              /\ round' = "built"
              /\ UNCHANGED <<points, centroids, membership, iter, delta, at, partials>>

KMeansNext == (\E t \in Threads : Assign(t)) \/ Reduce \/ BuildLists

KMeansSpec == KMeansInit /\ [][KMeansNext]_kmeansVars
-----------------------------------------------------------------------------
\* Type invariant.
KMeansTypeOK ==
    /\ points \in [Points -> Nat]
    /\ centroids \in [ClusterIds -> Nat] /\ membership \in [Points -> ClusterIds]
    /\ iter \in 0 .. MaxIter /\ delta \in Nat
    /\ partialLen \in [Threads -> [ClusterIds -> Nat]]
    /\ partialSum \in [Threads -> [ClusterIds -> Nat]]
    /\ at \in [Threads -> Nat] /\ \A t \in Threads : at[t] \in ChunkStart(t) .. ChunkEnd(t)
    /\ round \in {"assign", "clustered", "built"}

\* One round of the clustering of all points, written without threads.
Sum(pts, value) == SumTo([pt \in Points |-> IF pt \in pts THEN value[pt] ELSE 0], NumPoints)
Mean(pts, c) == IF pts = {} THEN centroids[c] ELSE Sum(pts, points) \div Cardinality(pts)
Assigned(c) == {pt \in Points : NearestTo(centroids, pt) = c}

(***************************************************************************)
(* An iteration of the team is a round of the sequential algorithm,        *)
(* whatever the number of threads and however they interleave: no point is *)
(* summed twice or left out, and nothing is carried over to the next.      *)
(***************************************************************************)
RoundsAreSequential ==
    [][iter' # iter =>
          /\ centroids' = [c \in ClusterIds |-> Mean(Assigned(c), c)]
          /\ \A pt \in Points : membership'[pt] = NearestTo(centroids, pt)]_kmeansVars

(***************************************************************************)
(* When the loop ends before max_iter, and not in its first iteration,     *)
(* every point is in the list of a centroid nearest to it: a query that    *)
(* visits the nearest clusters looks in the right lists.                   *)
(***************************************************************************)
ListsHoldNearest ==
    round = "built" /\ 1 < iter /\ iter < MaxIter =>
        \A c \in ClusterIds : \A k \in DOMAIN ivf[c] : \A d \in ClusterIds :
            DistTo(ivf[c][k], centroids[c]) <= DistTo(ivf[c][k], centroids[d])
=============================================================================
