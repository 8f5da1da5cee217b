----------------------------- MODULE LabelTables -----------------------------
(***************************************************************************)
(* The tables every program derives from the label matrix before it does   *)
(* anything else: the loaded rows (sparse_bitmatrix of src/utils.hpp), the *)
(* transposed matrix with the vectors of each label (transpose), and for   *)
(* each label the open-addressing table from vectors to their positions in *)
(* it (hash_subgroup of src/hash_table.hpp); with the operations of        *)
(* VertexSet the builder and the queries apply to rows.                    *)
(***************************************************************************)
EXTENDS Integers, Sequences, FiniteSets

CONSTANTS NumRows, NumCols,     \* vectors and labels
          LinearMax,            \* rows longer than this are searched by halving (32)
          MatrixChoices         \* label matrices as they are in the file

Rows == 0 .. NumRows - 1
Cols == 0 .. NumCols - 1

\* A vector has a label at most once.
ASSUME LabelTablesAssumption ==
    /\ NumRows \in Nat \ {0} /\ NumCols \in Nat \ {0} /\ LinearMax \in Nat
    /\ \A m \in MatrixChoices :
         /\ DOMAIN m = Rows
         /\ \A v \in Rows : m[v] \in Seq(Cols) /\ \A k, l \in DOMAIN m[v] : m[v][k] = m[v][l] => k = l

VARIABLES rows,                 \* filters: the labels of each vector
          indptr, indices,      \* the transposed matrix, filterst
          seen,                 \* the table of each label
          stage, row, label     \* the loops

tableVars == <<rows, indptr, indices, seen, stage, row, label>>

Carries(v) == {rows[v][k] : k \in DOMAIN rows[v]}
Carrying(f) == {v \in Rows : f \in Carries(v)}

\* Where the rows begin, as in the file, and their end.
RowPtr[v \in 0 .. NumRows] == IF v = 0 THEN 0 ELSE RowPtr[v - 1] + Len(rows[v - 1])
Nnz == RowPtr[NumRows]

SmallerIn(S, x) == {y \in S : y < x}
Sorted(S) == [k \in 1 .. Cardinality(S) |-> CHOOSE x \in S : Cardinality(SmallerIn(S, x)) = k - 1]

\* filterst[f]: a slice of indices, as a sequence.
RowOf(f) == [k \in 1 .. indptr[f + 1] - indptr[f] |-> indices[indptr[f] + k - 1]]

Pow2[k \in 0 .. NumRows + 2] == IF k = 0 THEN 1 ELSE 2 * Pow2[k - 1]
Lg(n) == CHOOSE e \in 0 .. n : Pow2[e] <= n /\ n < Pow2[e + 1]      \* std::__lg, n > 0

Capacity(f) == Pow2[Lg(Len(RowOf(f))) + 2]
GetHash(f, v) == v % Capacity(f)
Probe(f, v, d) == (GetHash(f, v) + d) % Capacity(f)

TablesInit ==
    /\ rows \in MatrixChoices
    /\ indptr = [f \in 0 .. NumCols |-> 0] /\ indices = <<>>
    /\ seen = [f \in Cols |-> <<>>]
    /\ stage = "load" /\ row = 0 /\ label = 0

\* Mutant: the rows stay in the order of the file.
LoadUnsorted ==
    /\ stage = "load"
    /\ stage' = "count"
    /\ UNCHANGED <<rows, indptr, indices, seen, row, label>>

\* The constructor sorts each row.
LoadRows ==
    /\ stage = "load"
    /\ rows' = [v \in Rows |-> Sorted(Carries(v))]
    /\ stage' = "count"
    /\ UNCHANGED <<indptr, indices, seen, row, label>>

Count ==
    /\ stage = "count"
    /\ indptr' = [f \in 0 .. NumCols |-> Cardinality(Carrying(f))]
    /\ indices' = [k \in 0 .. Nnz - 1 |-> -1]
    /\ stage' = "sum" /\ row' = 0
    /\ UNCHANGED <<rows, seen, label>>

PrefixSum ==
    /\ stage = "sum"
    /\ IF row < NumCols
       THEN /\ indptr' = [indptr EXCEPT ![row + 1] = @ + indptr[row]]
            /\ row' = row + 1 /\ stage' = "sum"
       ELSE /\ row' = NumRows - 1 /\ stage' = "place"
            /\ UNCHANGED indptr
    /\ UNCHANGED <<rows, indices, seen, label>>

\* From the last row to the first, each place is taken from the end of its slice.
PlaceRow ==
    /\ stage = "place" /\ row >= 0
    /\ indptr' = [f \in 0 .. NumCols |-> IF f \in Carries(row) THEN indptr[f] - 1 ELSE indptr[f]]
    /\ indices' = [k \in DOMAIN indices |->
                     IF \E f \in Carries(row) : k = indptr[f] - 1 THEN row ELSE indices[k]]
    /\ row' = row - 1
    /\ UNCHANGED <<rows, seen, stage, label>>

\* A table is built for each label that has vectors; the other ones are not big.
StartTable ==
    /\ \/ stage = "place" /\ row < 0
       \/ stage = "insert" /\ row >= Len(RowOf(label - 1))
    /\ label < NumCols
    /\ label' = label + 1 /\ row' = 0
    /\ seen' = [seen EXCEPT ![label] = IF RowOf(label) = <<>> THEN <<>>
                                       ELSE [h \in 0 .. Capacity(label) - 1 |-> -1]]
    /\ stage' = "insert"
    /\ UNCHANGED <<rows, indptr, indices>>

\* Mutant: a slot in use is overwritten.
InsertOverwrites ==
    LET f == label - 1 IN
    /\ stage = "insert" /\ row < Len(RowOf(f))
    /\ seen' = [seen EXCEPT ![f][GetHash(f, RowOf(f)[row + 1])] = row]
    /\ row' = row + 1
    /\ UNCHANGED <<rows, indptr, indices, stage, label>>

\* Position row goes to the first free slot of the probe sequence.
FreeProbes(f, v) == {d \in 0 .. Capacity(f) - 1 : seen[f][Probe(f, v, d)] = -1}
Insert ==
    LET f == label - 1
        v == RowOf(f)[row + 1]
        d == CHOOSE d \in FreeProbes(f, v) : \A e \in FreeProbes(f, v) : d <= e
    IN  /\ stage = "insert" /\ row < Len(RowOf(f))
        /\ seen' = [seen EXCEPT ![f][Probe(f, v, d)] = row]
        /\ row' = row + 1
        /\ UNCHANGED <<rows, indptr, indices, stage, label>>

Finish ==
    /\ stage = "insert" /\ label = NumCols /\ row >= Len(RowOf(label - 1))
    /\ stage' = "ready"
    /\ UNCHANGED <<rows, indptr, indices, seen, row, label>>

TablesNext == LoadRows \/ Count \/ PrefixSum \/ PlaceRow \/ StartTable \/ Insert \/ Finish

TablesSpec == TablesInit /\ [][TablesNext]_tableVars
-----------------------------------------------------------------------------
\* pos(): the probing ends at the vector or at a free slot.
Stops(f, v) == {d \in 0 .. Capacity(f) - 1 : LET p == seen[f][Probe(f, v, d)]
                                             IN  p = -1 \/ RowOf(f)[p + 1] = v}
PosIn(f, v) == seen[f][Probe(f, v, CHOOSE d \in Stops(f, v) : \A e \in Stops(f, v) : d <= e)]

\* get_intersect_num: the number of common elements met by merging from l and r.
Merged(a, b) ==
    LET m[at \in (1 .. Len(a) + 1) \X (1 .. Len(b) + 1)] ==
          LET l == at[1]
              r == at[2]
          IN  IF l > Len(a) \/ r > Len(b) THEN 0
              ELSE (IF a[l] = b[r] THEN 1 ELSE 0)
                   + m[<<IF a[l] <= b[r] THEN l + 1 ELSE l, IF b[r] <= a[l] THEN r + 1 ELSE r>>]
    IN  m[<<1, 1>>]

\* contains: a scan of short rows, halving of long ones.
Contains(s, x) ==
    LET h[at \in (1 .. Len(s) + 1) \X (0 .. Len(s))] ==
          LET l == at[1]
              r == at[2]
              m == (l + r) \div 2
          IN  l <= r /\ \/ s[m] = x
                        \/ s[m] < x /\ h[<<m + 1, r>>]
                        \/ s[m] > x /\ h[<<l, m - 1>>]
    IN  IF Len(s) > LinearMax THEN h[<<1, Len(s)>>] ELSE \E k \in DOMAIN s : s[k] = x
-----------------------------------------------------------------------------
\* Type invariant.
TablesTypeOK ==
    /\ \A v \in Rows : rows[v] \in Seq(Cols)
    /\ indptr \in [0 .. NumCols -> 0 .. Nnz]
    /\ \A k \in DOMAIN indices : indices[k] \in Rows \cup {-1}
    /\ row \in -1 .. NumRows + NumCols /\ label \in 0 .. NumCols

Transposed == stage \in {"insert", "ready"} \/ (stage = "place" /\ row < 0)

(***************************************************************************)
(* After transpose the slice of each label holds its vectors in ascending  *)
(* order, and the slices fill the array: every search, scan and position   *)
(* of the programs relies on it.                                           *)
(***************************************************************************)
SlicesAreGroups ==
    /\ indptr[0] = 0 /\ indptr[NumCols] = Nnz
    /\ \A f \in Cols : RowOf(f) = Sorted(Carrying(f))

(***************************************************************************)
(* The table of a label finds the position of every vector of the label    *)
(* in its slice and answers -1 for every other one, also where probe       *)
(* sequences of several vectors run into each other or around the end of   *)
(* the table (utils.hpp's transpose, hash_subgroup::pos).                  *)
(***************************************************************************)
PositionsFound ==
    /\ Transposed => TablesTypeOK /\ SlicesAreGroups
    /\ stage = "ready" => \A f \in Cols, v \in Rows :
           Carrying(f) # {} =>
               PosIn(f, v) = IF v \in Carrying(f) THEN Cardinality(SmallerIn(Carrying(f), v)) ELSE -1

(***************************************************************************)
(* The overlap of two vectors is counted and a label is found as on sets,  *)
(* whatever the order of the labels in the file.                           *)
(***************************************************************************)
RowsActAsSets ==
    stage = "ready" =>
        /\ \A u, v \in Rows : Merged(rows[u], rows[v]) = Cardinality(Carries(u) \cap Carries(v))
        /\ \A v \in Rows, f \in Cols : Contains(rows[v], f) <=> f \in Carries(v)
=============================================================================
