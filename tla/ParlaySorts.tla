----------------------------- MODULE ParlaySorts -----------------------------
(***************************************************************************)
(* ParlayLib's comparison sorts (src/parlay/internal/: binary_search.h,    *)
(* merge.h, merge_sort.h, quicksort.h, bucket_sort.h, heap_tree.h), as     *)
(* operators.  An element is <<key, id>>; sorts compare keys, ids tell     *)
(* equal elements apart.  A sort that relocates between two arrays returns *)
(* both.                                                                   *)
(***************************************************************************)
EXTENDS ParlayArrays

CONSTANTS Hash,                 \* hash64
          SearchBase, MergeBase, MergeSortBase, QuickBase, BucketBase, BucketBits

Less(a, b) == a[1] < b[1]

-----------------------------------------------------------------------------
\* linear_search and binary_search: how many elements precede the first that is not less
LinearSearch(q, v) ==
    IF \A i \in DOMAIN q : Less(q[i], v) THEN Len(q)
    ELSE (CHOOSE i \in DOMAIN q : ~Less(q[i], v) /\ \A j \in 1 .. i - 1 : Less(q[j], v)) - 1

RECURSIVE SearchFrom(_, _, _, _)
SearchFrom(q, v, start, end) ==
    IF end - start <= SearchBase THEN start + LinearSearch(SubSeq(q, start + 1, end), v)
    ELSE LET mid == (start + end) \div 2 IN
         IF ~Less(q[mid + 1], v) THEN SearchFrom(q, v, start, mid) ELSE SearchFrom(q, v, mid + 1, end)
BinarySearch(q, v) == SearchFrom(q, v, 0, Len(q))

RECURSIVE SeqMerge(_, _)
SeqMerge(a, b) ==
    IF a = <<>> THEN b ELSE IF b = <<>> THEN a
    ELSE IF Less(b[1], a[1]) THEN <<b[1]>> \o SeqMerge(a, Tail(b)) ELSE <<a[1]>> \o SeqMerge(Tail(a), b)

RECURSIVE MergeInto(_, _)
MergeInto(a, b) ==
    IF Len(a) + Len(b) < MergeBase THEN SeqMerge(a, b)
    ELSE IF a = <<>> THEN b ELSE IF b = <<>> THEN a
    ELSE LET half == Len(a) \div 2
             mB == BinarySearch(b, a[half + 1])
             mA == IF mB = 0 THEN half + 1 ELSE half
         IN  MergeInto(SubSeq(a, 1, mA), SubSeq(b, 1, mB))
               \o MergeInto(SubSeq(a, mA + 1, Len(a)), SubSeq(b, mB + 1, Len(b)))

-----------------------------------------------------------------------------
RECURSIVE Sink(_, _)
Sink(a, j) == IF j >= 1 /\ Less(a[j + 1], a[j]) THEN Sink(Exchange(a, j, j + 1), j - 1) ELSE a
InsertionSort(a) == FoldLeft(Sink, a, Upto(Len(a) - 1))

MergeBack(to, left, right) == Relocate(to, MergeInto(left, right))

\* merge_sort_: the arrays afterwards; the result is in "in" if inplace, else in "out"
RECURSIVE MergeSortHalves(_, _, _)
MergeSortHalves(in, out, inplace) ==
    LET n == Len(in) IN
    IF n < MergeSortBase
    THEN IF inplace THEN [in |-> InsertionSort(in), out |-> out]
         ELSE [in |-> Raws(n), out |-> Relocate(out, InsertionSort(in))]
    ELSE LET m == n \div 2
             l == MergeSortHalves(SubSeq(in, 1, m), SubSeq(out, 1, m), ~inplace)
             r == MergeSortHalves(SubSeq(in, m + 1, n), SubSeq(out, m + 1, n), ~inplace)
         IN  IF inplace THEN [in |-> MergeBack(l.in \o r.in, l.out, r.out), out |-> Raws(n)]
             ELSE [in |-> Raws(n), out |-> MergeBack(l.out \o r.out, l.in, r.in)]

MergeSortInplace(a) ==
    IF Len(a) <= MergeSortBase THEN [in |-> InsertionSort(a), out |-> Raws(Len(a))]
    ELSE MergeSortHalves(a, Raws(Len(a)), TRUE)

-----------------------------------------------------------------------------
\* sort5 brings five sampled elements to the front, in order.
Sort5(a) ==
    LET n == Len(a)
        sampled == FoldLeft(LAMBDA b, i : Exchange(b, i, i + (Hash[i - 1] % (n - i + 1))), a, Upto(5))
    IN  InsertionSort(SubSeq(sampled, 1, 5)) \o SubSeq(sampled, 6, n)

RECURSIVE UpWhileLess(_, _), DownWhileGreater(_, _), Partition(_, _, _, _)
UpWhileLess(a, l) == IF Less(a[l], a[1]) THEN UpWhileLess(a, l + 1) ELSE l
DownWhileGreater(a, r) == IF Less(a[2], a[r]) THEN DownWhileGreater(a, r - 1) ELSE r

\* The loop of split3: below l less than the pivot a[1], above r greater than the
\* pivot a[2], from l up to m between them, from m to r not looked at yet.
Partition(a, l, m, r) ==
    IF m > r THEN [a |-> a, l |-> l, m |-> m, r |-> r]
    ELSE IF Less(a[m], a[1]) THEN Partition(Exchange(a, m, l), l + 1, m + 1, r)
    ELSE IF ~Less(a[2], a[m]) THEN Partition(a, l, m + 1, r)
    ELSE LET b == Exchange(a, m, r)
             low == Less(b[m], b[1])
             c == IF low THEN Exchange(b, l, m) ELSE b
         IN  Partition(c, IF low THEN l + 1 ELSE l, m + 1, DownWhileGreater(c, r - 1))

\* The pivots go between the parts.
PivotsBack(p, at) ==
    [a |-> Exchange(Exchange(Exchange(p.a, 2, at + 1), 1, at), at + 1, p.r),
     l |-> at, m |-> p.m, equal |-> ~Less(p.a[1], p.a[2])]
SplitAround(a) ==
    LET l == UpWhileLess(a, 3)
        p == Partition(a, l, l, DownWhileGreater(a, Len(a)))
    IN  PivotsBack(p, p.l - 2)
Split3(q) == SplitAround(Exchange(Exchange(Sort5(q), 1, 2), 2, 4))

\* quicksort_serial and quicksort: left of the first pivot, between, from m on
RECURSIVE Quicksort(_), SortParts(_)
SortParts(s) ==
    LET mid == SubSeq(s.a, s.l + 1, s.m - 1)
    IN  Quicksort(SubSeq(s.a, 1, s.l - 1)) \o <<s.a[s.l]>>
          \o (IF s.equal THEN mid ELSE Quicksort(mid)) \o Quicksort(SubSeq(s.a, s.m, Len(s.a)))
Quicksort(a) == IF Len(a) < QuickBase THEN InsertionSort(a) ELSE SortParts(Split3(a))

\* p_split3 over split_three, and p_quicksort_ (which nothing calls)
PSplitAround(a) ==
    LET first == IF ~Less(a[1], a[2]) THEN a[4] ELSE a[2]
        second == IF ~Less(a[4], a[5]) THEN first ELSE a[4]
        low == SelectSeq(a, LAMBDA e : Less(e, first))
        high == SelectSeq(a, LAMBDA e : ~Less(e, first) /\ Less(second, e))
    IN  [low |-> low, mid |-> SelectSeq(a, LAMBDA e : ~Less(e, first) /\ ~Less(second, e)),
         high |-> high, equal |-> ~Less(first, second)]
PSplit3(q) == PSplitAround(Sort5(q))

RECURSIVE PQuicksort(_), PSortParts(_)
PSortParts(s) == PQuicksort(s.low) \o (IF s.equal THEN s.mid ELSE PQuicksort(s.mid)) \o PQuicksort(s.high)
PQuicksort(a) == IF Len(a) < QuickBase THEN Quicksort(a) ELSE PSortParts(PSplit3(a))

-----------------------------------------------------------------------------
\* to_tree and to_balanced_tree: the middle of q at root, its halves below
RECURSIVE ToTree(_, _, _)
ToTree(tree, q, root) ==
    LET m == Len(q) \div 2
        here == [tree EXCEPT ![root] = q[m + 1]]
    IN  IF Len(q) = 1 THEN here
        ELSE ToTree(ToTree(here, SubSeq(q, 1, m), 2 * root + 1), SubSeq(q, m + 2, Len(q)), 2 * root + 2)
Tree(q) == ToTree([j \in 0 .. Len(q) - 1 |-> Raw], q, 0)

RECURSIVE Descend(_, _, _, _)
Descend(tree, v, j, levels) ==
    IF levels = 0 THEN j
    ELSE Descend(tree, v, 1 + 2 * j + (IF Less(v, tree[j]) THEN 0 ELSE 1), levels - 1)

\* heap_tree::rank: all levels but the last send an equal key left
RECURSIVE DescendLeft(_, _, _, _)
DescendLeft(tree, v, j, levels) ==
    IF levels = 1 THEN Descend(tree, v, j, 1)
    ELSE DescendLeft(tree, v, 1 + 2 * j + (IF Less(tree[j], v) THEN 1 ELSE 0), levels - 1)
HeapRank(q, levels, v) == DescendLeft(Tree(q), v, 0, levels) - Len(q)

\* get_buckets: the bucket of each element, or <<>> if all pivots are equal
BucketsBetween(pivots, a) ==
    LET tree == Tree(pivots)
    IN  IF ~Less(pivots[1], pivots[Len(pivots)]) THEN <<>>
        ELSE Each(LAMBDA e : Descend(tree, e, 0, BucketBits) - Len(pivots), a)
GetBuckets(a) ==
    LET n == Len(a)
        buckets == 2 ^ BucketBits
        over == 1 + n \div (buckets * 400)
        sample == Quicksort(Each(LAMBDA i : <<a[(Hash[i - 1] % n) + 1][1], i>>, Upto(buckets * over)))
    IN  BucketsBetween(Each(LAMBDA i : sample[over * i + 1], Upto(buckets - 1)), a)

\* radix_step_: counts, their running sum, then from the end each into its bucket
RadixStep(a, to, keys, m) ==
    LET n == Len(a)
        ends == [k \in 0 .. m - 1 |-> Cardinality({j \in 1 .. n : keys[j] <= k})]
        done == FoldLeft(LAMBDA s, i : LET j == n + 1 - i IN
                           [at |-> [s.at EXCEPT ![keys[j]] = @ - 1], out |-> [s.out EXCEPT ![s.at[keys[j]]] = a[j]]],
                         [at |-> ends, out |-> Raws(n)], Upto(n))
    IN  [out |-> Relocate(to, done.out), starts |-> done.at]

BaseSort(in, out, stable, inplace) ==
    IF stable THEN MergeSortHalves(in, out, inplace)
    ELSE IF inplace THEN [in |-> Quicksort(in), out |-> out]
    ELSE [in |-> Raws(Len(in)), out |-> Relocate(out, Quicksort(in))]

Joined(parts, array) == FlattenSeq(Each(LAMBDA p : p[array], parts))

\* bucket_sort_r: the buckets are sorted from the other array back
RECURSIVE BucketSortHalves(_, _, _, _), SortFromBuckets(_, _, _)
SortFromBuckets(r, stable, inplace) ==
    LET m == 2 ^ BucketBits
        end(j) == IF j = m - 1 THEN Len(r.out) ELSE r.starts[j + 1]
        parts == Each(LAMBDA j : BucketSortHalves(SubSeq(r.out, r.starts[j - 1] + 1, end(j - 1)),
                                                  Raws(end(j - 1) - r.starts[j - 1]), stable, ~inplace),
                      Upto(m))
    IN  [in |-> Joined(parts, "out"), out |-> Joined(parts, "in")]
BucketSortHalves(in, out, stable, inplace) ==
    LET keys == GetBuckets(in)
    IN  IF Len(in) < BucketBase \/ keys = <<>> THEN BaseSort(in, out, stable, inplace)
        ELSE SortFromBuckets(RadixStep(in, out, keys, 2 ^ BucketBits), stable, inplace)

BucketSort(a, stable) == BucketSortHalves(a, Raws(Len(a)), stable, TRUE)

-----------------------------------------------------------------------------
\* Merging any two sorted parts, whatever the halves are cut at, keeps equal elements
\* in order; the stable sorts give the one stable order, the others a sorted
\* rearrangement; no element is lost or doubled and the other array is left empty.
ComparisonSorts(s) ==
    LET q == Items(s)  n == Len(s) IN
    /\ \A k \in 0 .. n : MergeInto(Stably(SubSeq(q, 1, k)), Stably(SubSeq(q, k + 1, n))) = Stably(q)
    /\ \A v \in 0 .. MaxKey : BinarySearch(Stably(q), <<v, 0>>) = Cardinality({i \in 1 .. n : s[i] < v})
    /\ MergeSortInplace(q) = [in |-> Stably(q), out |-> Raws(n)]
    /\ SortedAsIs(Quicksort(q), q)
    /\ SortedAsIs(PQuicksort(q), q)
    /\ n > 0 => /\ BucketSort(q, TRUE) = [in |-> Stably(q), out |-> Raws(n)]
                /\ SortedAsIs(BucketSort(q, FALSE).in, q) /\ BucketSort(q, FALSE).out = Raws(n)
=============================================================================
