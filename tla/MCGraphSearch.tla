--------------------------- MODULE MCGraphSearch ---------------------------
(***************************************************************************)
(* Instances of GraphSearch for TLC.                                       *)
(*  - Exact: a group of 5 vectors out of 6 and a beam of 3, so that the    *)
(*    visited set has a slot for each; single graphs of out-degree 2 with  *)
(*    three choices a vertex, a few shared edges, equal distances.         *)
(*  - Lossy: a group of 10 and a beam of 2; the visited set has 8 slots    *)
(*    and positions 0 and 8, 1 and 9 evict each other.  The graphs vary on *)
(*    0, 1, 8, 9; the other positions pad with 0 as the index does.        *)
(***************************************************************************)
EXTENDS GraphSearch

ExactRow == [i \in 0 .. 4 |-> i + (IF i >= 2 THEN 1 ELSE 0)]        \* vector 2 lacks the label
ExactTies == [i \in 0 .. 4 |-> <<9, 3, 4, 7, 4>>[i + 1]]
ExactPairs == {<<1, 3>>, <<2, 0>>, <<4, 2>>}
ExactSingle == [0 .. 4 -> ExactPairs]
ExactShared == {[v \in 0 .. 5 |-> IF v \in S THEN <<(v + 3) % 6, 2>> ELSE <<0, 2>>] :
                   S \in {{0}, {1, 4}}}

LossyRow == [i \in 0 .. 9 |-> i]
LossyTies == [i \in 0 .. 9 |-> <<2, 2, 9, 9, 9, 9, 9, 9, 2, 1>>[i + 1]]
Mixed == {0, 1, 8, 9}
Pairs == {<<0, 8>>, <<8, 0>>, <<1, 8>>, <<9, 0>>, <<1, 9>>, <<9, 8>>}
LossySingle == {[i \in 0 .. 9 |-> IF i \in Mixed THEN f[i] ELSE <<0, 0>>] : f \in [Mixed -> Pairs]}
LossyShared == {[v \in 0 .. 9 |-> <<0>>]}
=============================================================================
