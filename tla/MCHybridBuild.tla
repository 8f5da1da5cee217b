--------------------------- MODULE MCHybridBuild ---------------------------
(***************************************************************************)
(* Instances of HybridBuild for TLC.                                       *)
(*  - Overlaps: 5 vectors, not in their own order, the batches of one, two *)
(*    and one; label 1 on all, labels 2 and 3 on any two sets of vectors.  *)
(*  - Three: 7 vectors, the last batch of three tasks, among them vectors  *)
(*    that are the first of a label and insert themselves for others;      *)
(*    equal distances, a beam of 1 and hence a visited set of two slots,   *)
(*    which forgets.                                                       *)
(*  - Small: 4 vectors and the batch bound of the code, 0.01*N.            *)
(***************************************************************************)
EXTENDS BuildReference

Distances(line) == [u \in V |-> [v \in V |-> (line[u + 1] - line[v + 1]) * (line[u + 1] - line[v + 1])]]
LineDist == Distances(<<0, 4, 1, 7, 3, 11, 6>>)
TiesDist == Distances(<<0, 1, 2, 1, 1, 2, 0>>)

\* The label that all vectors carry has the smaller degree.
Degrees == [f \in Labels |-> IF f = 1 THEN 1 ELSE 2]

InOrder == {[i \in V |-> i]}
Shuffled == {[i \in V |-> (2 * i) % N]}

Labelled(A, B, C) == [v \in V |-> (IF v \in A THEN {1} ELSE {}) \cup (IF v \in B THEN {2} ELSE {})
                                    \cup (IF v \in C THEN {3} ELSE {})]
AnyOverlaps == {Labelled(V, B, C) : B, C \in SUBSET V}
FreshFirsts == {Labelled(V \ {3, 5}, {4, 5, 6}, {5, 6}), Labelled(V, {2, 4, 6}, {0, 1, 5, 6})}
OneLabel == {Labelled(V, {}, {})}
=============================================================================
