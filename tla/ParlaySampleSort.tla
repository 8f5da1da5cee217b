-------------------------- MODULE ParlaySampleSort --------------------------
(***************************************************************************)
(* src/parlay/internal/transpose.h and sample_sort.h: sort blocks, cut     *)
(* every block at the same pivots, bring the parts of a bucket together    *)
(* and sort the buckets.  A matrix is a function of <<row, column>>.       *)
(***************************************************************************)
EXTENDS ParlaySorts, ParlaySequenceOps

CONSTANTS TransThreshold,               \* cells that transR and blockTrans do in one piece
          SampleThreshold,              \* QUICKSORT_THRESHOLD
          BlockQuotient, BucketQuotient, OverSample, SampleBlocks

Sqrt(n) == CHOOSE r \in 0 .. n : r * r <= n /\ (r + 1) * (r + 1) > n

-----------------------------------------------------------------------------
\* transpose::transR and blockTrans::transR: the cells in the order they are done
RECURSIVE TransCells(_, _, _, _)
TransCells(r, rows, c, cols) ==
    IF cols * rows < TransThreshold
    THEN FlattenSeq(Tabulate(rows, LAMBDA i : Tabulate(cols, LAMBDA j : <<r + i, c + j>>)))
    ELSE IF cols > rows
    THEN LET l == cols \div 2 IN TransCells(r, rows, c, l) \o TransCells(r, rows, c + l, cols - l)
    ELSE LET l == rows \div 2 IN TransCells(r, l, c, cols) \o TransCells(r + l, rows - l, c, cols)

\* transpose: In[i, j] is constructed at Out[j, i]
Transpose(In, rows, cols) ==
    FoldLeft(LAMBDA out, x : WriteAt(out, x[2] * rows + x[1], <<In[x[1] * cols + x[2] + 1]>>),
             Raws(rows * cols), TransCells(0, rows, 0, cols))

\* blockTrans: the chunk i, j of the input to the place of chunk j, i
BlockTrans(in, to, inOffset, outOffset, rows, cols) ==
    FoldLeft(LAMBDA out, x : WriteAt(out, outOffset[x[2] * rows + x[1] + 1],
                                     Cut(in, inOffset[x[1] * cols + x[2] + 1], inOffset[x[1] * cols + x[2] + 2])),
             to, TransCells(0, rows, 0, cols))

\* transpose_buckets: the buckets, block after block, and where each starts.  "small"
\* chooses between its two ways.
TransposeBuckets(from, to, counts, blockSize, blocks, buckets, small) ==
    LET n == Len(from)
        dest == ScanTo(IF small THEN Tabulate(blocks * buckets,
                                              LAMBDA i : counts[i \div blocks + buckets * (i % blocks) + 1])
                       ELSE Transpose(counts, blocks, buckets), Plus, FALSE, TRUE).out
        block(out, b) ==
            FoldLeft(LAMBDA w, j : LET l == counts[b * buckets + j] IN
                         [out |-> WriteAt(w.out, dest[b + blocks * (j - 1) + 1], Cut(from, w.at, w.at + l)),
                          at |-> w.at + l],
                     [out |-> out, at |-> b * blockSize], Upto(buckets)).out
    IN  [out |-> IF small THEN FoldLeft(LAMBDA o, b : block(o, b - 1), to, Upto(blocks))
                 ELSE BlockTrans(from, to, Append(ScanTo(counts, Plus, FALSE, TRUE).out, n), dest, blocks, buckets),
         offsets |-> Append(Tabulate(buckets, LAMBDA i : dest[i * blocks + 1]), n)]

-----------------------------------------------------------------------------
\* get_bucket_counts: how many of the sorted a lie between the sorted pivots; of two
\* equal pivots the second takes what is equal to them.  An empty a leaves the counts
\* as they are.
BucketCounts(a, pivots) ==
    LET next(w, b) ==
            LET second == w.first /\ ~Less(pivots[b - 1], pivots[b])
                taken == IF second THEN SelectSeq(w.left, LAMBDA e : ~Less(pivots[b], e))
                         ELSE SelectSeq(w.left, LAMBDA e : Less(e, pivots[b]))
            IN  [left |-> Cut(w.left, Len(taken), Len(w.left)), counts |-> Append(w.counts, Len(taken)),
                 first |-> ~second]
        w == FoldLeft(next, [left |-> a, counts |-> <<>>, first |-> FALSE], Upto(Len(pivots)))
    IN  IF a = <<>> \/ pivots = <<>> THEN Raws(Len(pivots) + 1) ELSE Append(w.counts, Len(w.left))

\* Large values are sorted in place by quicksort even if the sort is to be stable.
SeqSortUnstable(a, stable, large) == IF large THEN Quicksort(a) ELSE BucketSort(a, stable).in

\* seq_sort_inplace: bucket_sort for small values and when stable, else quicksort
SeqSort(a, stable, large) == IF large /\ ~stable THEN Quicksort(a) ELSE BucketSort(a, stable).in

Shape(n) ==
    LET blocks == 2 ^ Log2Up(Sqrt(n) \div BlockQuotient + 1)
    IN  [blocks |-> blocks, size |-> (n - 1) \div blocks + 1, buckets |-> Sqrt(n) \div BucketQuotient + 1]

BlocksOf(q, size) == SlicedFor(Len(q), size, LAMBDA s, e : Cut(q, s, e))

\* Every step-th of the sorted samples.
PivotsOf(samples, step, buckets) == Tabulate(buckets - 1, LAMBDA i : samples[step * i + 1])

\* What both forms do with sorted blocks: count, transpose, sort the buckets; unless
\* "all", those between equal pivots are left as they are.
SortBuckets(blocks, shape, pivots, all, stable, large, small) ==
    LET sorts(i) == all \/ i = 0 \/ i = shape.buckets - 1 \/ Less(pivots[i], pivots[i + 1])
        tmp == FlattenSeq(blocks)
        counts == FlattenSeq(Each(LAMBDA b : BucketCounts(b, pivots), blocks))
        t == TransposeBuckets(tmp, Raws(Len(tmp)), counts, shape.size, shape.blocks, shape.buckets, small)
    IN  FlattenSeq(Tabulate(shape.buckets, LAMBDA i :
            LET bucket == Cut(t.out, t.offsets[i + 1], t.offsets[i + 2])
            IN  IF sorts(i) THEN SeqSort(bucket, stable, large) ELSE bucket))

\* sample_sort_: copies; the pivots are copies too
SampleSort(q, stable, large, small) ==
    LET n == Len(q)
        shape == Shape(n)
        sample == Quicksort(Tabulate(shape.buckets * OverSample, LAMBDA i : <<q[(Hash[i] % n) + 1][1], -i>>))
    IN  IF n < SampleThreshold THEN SeqSort(q, stable, large)
        ELSE SortBuckets(Each(LAMBDA b : SeqSort(b, stable, large), BlocksOf(q, shape.size)),
                         shape, PivotsOf(sample, OverSample, shape.buckets), FALSE, stable, large, small)

\* sample_sort_inplace_: the samples are swapped to the front and sorted there; they
\* are the first blocks, which are not sorted again
SampleSortInplace(q, large, small) ==
    LET n == Len(q)
        shape == Shape(n)
        size == SampleBlocks * shape.size
        swapped == FoldLeft(LAMBDA a, i : Exchange(a, i, i + (Hash[i - 1] % (n - i + 1))), q, Upto(size))
        samples == Quicksort(Cut(swapped, 0, size))
        blocks == BlocksOf(samples \o Cut(swapped, size, n), shape.size)
        sorted(i) == IF i > SampleBlocks THEN SeqSort(blocks[i], FALSE, large) ELSE blocks[i]
    IN  IF n < SampleThreshold THEN SeqSort(q, FALSE, large)
        ELSE SortBuckets(Each(sorted, Upto(Len(blocks))), shape,
                         PivotsOf(samples, size \div (shape.buckets - 1), shape.buckets), TRUE, FALSE, large, small)

-----------------------------------------------------------------------------
\* Whichever way buckets are brought together, whatever pivots the samples give
\* (equal ones, too) and whichever buckets are left unsorted, the stable sort gives
\* the one stable order and the others a sorted rearrangement.  Transposing in pieces
\* moves every cell once.
SampleSorts(s) ==
    LET q == Items(s)
        n == Len(s)
    IN  /\ n > 0 => \A small, large \in BOOLEAN :
              /\ SampleSort(q, TRUE, large, small) = Stably(q)
              /\ SortedAsIs(SampleSort(q, FALSE, large, small), q)
              /\ SortedAsIs(SampleSortInplace(q, large, small), q)
        /\ \A rows \in 1 .. n : n % rows = 0 =>
              LET cols == n \div rows IN
              Transpose(s, rows, cols) = Tabulate(n, LAMBDA i : s[(i % rows) * cols + i \div rows + 1])
=============================================================================
