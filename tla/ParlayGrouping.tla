--------------------------- MODULE ParlayGrouping ---------------------------
(***************************************************************************)
(* src/parlay/internal/collect_reduce.h and group_by.h: values with equal  *)
(* keys are brought together by tables, by sorting, or by a hash that      *)
(* gives keys that are frequent in a sample buckets of their own; and      *)
(* kth_smallest, which counts its buckets with a histogram.                *)
(*                                                                         *)
(* A helper is a record of functions, as in the code: init makes the       *)
(* result of a first element (few is the result of none), update adds an   *)
(* element, merge a result to another, combine makes that of a sequence.   *)
(***************************************************************************)
EXTENDS ParlayPrimitives, ParlayIntegerSorts

CONSTANTS KeyHash,              \* the hash of every key
          FewThreshold,         \* CR_SEQ_THRESHOLD and collect_reduce_sparse_'s 10000
          FewBlocks,            \* 4 * num_threads
          HashBits,             \* bits of the hash that choose a bucket
          CopyCutoff,           \* copies in the sample that make a key heavy
          KthThreshold, KthPivots, KthOver

-----------------------------------------------------------------------------
\* seq_collect_reduce
AddTo(out, e, helper) == ReplaceAt(out, e[1] + 1, helper.update[<<out[e[1] + 1], e>>])
SeqCollectReduce(q, m, helper) ==
    FoldLeft(LAMBDA out, e : AddTo(out, e, helper), Tabulate(m, LAMBDA k : helper.few), q)

\* collect_reduce_few: a table for each block, added up
FewSize(n, m) == (n - 1) \div (Min({FewBlocks, n \div m}) + 1) + 1
CollectReduceFew(q, m, helper) ==
    LET n == Len(q)
        tables == SlicedFor(n, FewSize(n, m), LAMBDA s, e : SeqCollectReduce(Cut(q, s, e), m, helper))
    IN  IF n < FewThreshold \/ NumBlocks(n, FewSize(n, m)) = 1 THEN SeqCollectReduce(q, m, helper)
        ELSE Tabulate(m, LAMBDA k : FoldLeft(LAMBDA r, t : helper.merge[<<r, t[k + 1]>>], helper.few, tables))

-----------------------------------------------------------------------------
\* get_bucket: the sampled keys counted in a table of linear probing; those with
\* copies enough go to a second table, without probing, and are numbered.
NoKey == -1
TableSize == 4 * 2 ^ HashBits

Slot(table, k) ==
    LET at(d) == ((KeyHash[k] + d) % TableSize) + 1
    IN  at(Min({d \in 0 .. TableSize - 1 : table[at(d)][1] \in {NoKey, k}}))

SampleCounts(q) ==
    FoldLeft(LAMBDA t, i : LET k == q[(Hash[i - 1] % Len(q)) + 1][1]
                               slot == Slot(t, k)
                           IN  ReplaceAt(t, slot, <<k, t[slot][2] + 1>>),
             Tabulate(TableSize, LAMBDA i : <<NoKey, 0>>), Upto(2 ^ HashBits))

HeavyTable(q) ==
    FoldLeft(LAMBDA h, c : LET slot == (KeyHash[c[1]] % TableSize) + 1 IN
                 IF c[1] = NoKey \/ c[2] < CopyCutoff THEN h
                 ELSE IF h.table[slot] # <<NoKey, 0>> THEN h
                 ELSE [table |-> ReplaceAt(h.table, slot, <<c[1], h.count>>), count |-> h.count + 1],
             [table |-> Tabulate(TableSize, LAMBDA i : <<NoKey, 0>>), count |-> 0], SampleCounts(q))

\* A light key in a heavy key's bucket is moved on.
LightBucketUnmoved(k, heavy) == KeyHash[k] % 2 ^ HashBits        \* mutant
LightBucket(k, heavy) ==
    LET b == KeyHash[k] % 2 ^ HashBits IN IF b < heavy THEN (b % (2 ^ HashBits - heavy)) + heavy ELSE b

Bucket(h, k) ==
    LET c == h.table[(KeyHash[k] % TableSize) + 1] IN
    IF c[1] = k THEN c[2] ELSE LightBucket(k, h.count)

\* collect_reduce: sort by bucket; a heavy bucket is combined at once into the result
\* of its first key, the others add to the results of theirs
BucketOf(sorted, i) == Cut(sorted.out, sorted.offsets[i], sorted.offsets[i + 1])
AddBucket(sums, b, heavy, helper) ==
    IF heavy THEN ReplaceAt(sums, b[1][1] + 1, helper.combine[b])
    ELSE FoldLeft(LAMBDA r, e : AddTo(r, e, helper), sums, b)
AddBuckets(sorted, m, heavy, helper) ==
    FoldLeft(LAMBDA sums, i : AddBucket(sums, Each(LAMBDA e : e[2], BucketOf(sorted, i)), i <= heavy, helper),
             Tabulate(m, LAMBDA k : helper.few), Upto(2 ^ HashBits))
CollectReduceByBucket(q, m, helper) ==
    LET h == HeavyTable(q)
    IN  AddBuckets(IntegerSort(Each(LAMBDA e : <<Bucket(h, e[1]), e>>, q), HashBits, 2 ^ HashBits),
                   m, h.count, helper)

\* The number of buckets and the size choose between the two.
CollectReduce(q, m, helper, few) ==
    IF few \/ Len(q) < FewThreshold THEN CollectReduceFew(q, m, helper) ELSE CollectReduceByBucket(q, m, helper)

\* seq_collect_reduce_sparse: a table half as large again as its input, packed
SeqCollectReduceSparse(q, helper) ==
    LET size == (3 * Len(q)) \div 2
        at(k, d) == ((KeyHash[k] + d) % size) + 1
        slot(t, k) == at(k, Min({d \in 0 .. size - 1 : t[at(k, d)] = Raw \/ t[at(k, d)][1] = k}))
        add(t, e) == LET i == slot(t, e[1]) IN
                     ReplaceAt(t, i, <<e[1], IF t[i] = Raw THEN helper.init[e] ELSE helper.update[<<t[i][2], e>>]>>)
    IN  SelectSeq(FoldLeft(add, Raws(size), q), LAMBDA r : r # Raw)

\* collect_reduce_sparse_
SparseBucket(b, heavy, helper) ==
    IF heavy THEN <<<<b[1][1], helper.combine[b]>>>> ELSE SeqCollectReduceSparse(b, helper)
SparseBuckets(sorted, heavy, helper) ==
    FlattenRange(Tabulate(2 ^ HashBits, LAMBDA i : SparseBucket(BucketOf(sorted, i + 1), i < heavy, helper)))
CollectReduceSparse(q, helper) ==
    LET h == HeavyTable(q)
    IN  IF Len(q) < FewThreshold THEN SeqCollectReduceSparse(q, helper)
        ELSE SparseBuckets(CountSort(q, Raws(Len(q)), Each(LAMBDA e : Bucket(h, e[1]), q), 2 ^ HashBits, FALSE),
                           h.count, helper)

-----------------------------------------------------------------------------
\* The value of an element is its id, alone: concatenation shows order and loss.
Element == Nat \X Nat
ReduceHelper == [few |-> <<>>, init |-> [e \in Element |-> <<e[2]>>],
                 update |-> [p \in Seq(Nat) \X Element |-> Append(p[1], p[2][2])], merge |-> Concat.op,
                 combine |-> [b \in Seq(Element) |-> Reduce(Each(LAMBDA e : <<e[2]>>, b), Concat)]]
GroupHelper == [ReduceHelper EXCEPT !.combine = [b \in Seq(Element) |-> Ids(b)]]
HistogramHelper == [few |-> 0, init |-> [e \in Element |-> 1], update |-> [p \in Nat \X Element |-> p[1] + 1],
                    merge |-> Plus.op, combine |-> [b \in Seq(Element) |-> Len(b)]]
DuplicatesHelper == [few |-> 0, init |-> [e \in Element |-> 0], update |-> [p \in Nat \X Element |-> p[1]],
                     merge |-> Plus.op, combine |-> [b \in Seq(Element) |-> 0]]

ReduceByIndex(q, m, few) == CollectReduce(q, m, ReduceHelper, few)
HistogramByIndex(q, m, few) == CollectReduce(q, m, HistogramHelper, few)
ReduceByKey(q) == CollectReduceSparse(q, ReduceHelper)
GroupByKey(q) == CollectReduceSparse(q, GroupHelper)
HistogramByKey(q) == CollectReduceSparse(q, HistogramHelper)
RemoveDuplicates(q) == Keys(CollectReduceSparse(q, DuplicatesHelper))

\* remove_duplicate_integers: its update sets the flag whatever it is given, a
\* block's flag that is not set, too
FlagHelper == [few |-> FALSE, update |-> [p \in BOOLEAN \X Element |-> TRUE],
               merge |-> [p \in BOOLEAN \X BOOLEAN |-> TRUE], combine |-> [b \in Seq(Element) |-> TRUE]]
RemoveDuplicateIntegers(q, m, few) ==
    LET flags == CollectReduce(q, m, FlagHelper, few)
    IN  Pack(Tabulate(m, LAMBDA k : k), {k \in 0 .. m - 1 : flags[k + 1]})

\* Runs of equal keys in a sorted sequence, found with block_delayed::filter
Runs(sorted) ==
    LET n == Len(sorted)
        firsts == {i \in 0 .. n - 1 : i = 0 \/ Less(sorted[i], sorted[i + 1])}
        starts == BlockDelayedFilter(Tabulate(n, LAMBDA i : i), firsts)
    IN  Tabulate(Len(starts), LAMBDA i : Cut(sorted, starts[i + 1], IF i = Len(starts) - 1 THEN n ELSE starts[i + 2]))

\* group_by_key_ordered: unsigned keys are sorted as integers
GroupByKeyOrdered(q, integers) ==
    Each(LAMBDA r : <<r[1][1], Ids(r)>>, Runs(IF integers THEN IntegerSort(q, 0, 0).out ELSE SampleSort(q, TRUE, FALSE, TRUE)))

\* group_by_index
GroupByIndex(q, m) ==
    IF Len(q) > m * m THEN GroupBySmallInt(Ids(q), Keys(q), m)
    ELSE FoldLeft(LAMBDA r, run : ReplaceAt(r, run[1][1] + 1, Ids(run)), Tabulate(m, LAMBDA k : <<>>),
                  Runs(IntegerSort(q, Log2Up(m), 0).out))

-----------------------------------------------------------------------------
\* kth_smallest_copy, and kth_smallest over iterators, which are all different: then
\* only the pivot itself is kept out of the bucket that is searched.
KthPivotsOf(q) ==
    LET sample == SampleSort(Tabulate(KthPivots * KthOver, LAMBDA i : q[(Hash[i] % Len(q)) + 1]), FALSE, FALSE, TRUE)
    IN  Tabulate(KthPivots, LAMBDA i : sample[i * KthOver + 1])
KthOffsets(ids) ==
    ScanTo(HistogramByIndex(Each(LAMBDA b : <<b, 0>>, ids), KthPivots + 1, TRUE), Plus, FALSE, FALSE).out

RECURSIVE KthSmallest(_, _, _), KthInBuckets(_, _, _, _, _, _)
KthInBuckets(q, k, iterators, pivots, ids, offsets) ==
    LET n == Len(q)
        id == Cardinality({b \in DOMAIN offsets : offsets[b] <= k}) - 1
        end == IF id = KthPivots THEN n ELSE offsets[id + 2]
        same(e) == IF iterators THEN e = pivots[id + 1] ELSE e[1] = pivots[id + 1][1]
        bucket == Pack(q, {i \in 0 .. n - 1 : ids[i + 1] = id /\ (id = KthPivots \/ ~same(q[i + 1]))})
    IN  IF k >= offsets[id + 1] + Len(bucket) /\ k < end THEN pivots[id + 1]
        ELSE KthSmallest(bucket, k - offsets[id + 1], iterators)
KthSmallest(q, k, iterators) ==
    LET pivots == KthPivotsOf(q)
        ids == Each(LAMBDA e : HeapRank(pivots, Log2Up(KthPivots + 1), e), q)
    IN  IF Len(q) <= KthThreshold THEN SampleSort(q, FALSE, FALSE, TRUE)[k + 1]
        ELSE KthInBuckets(q, k, iterators, pivots, ids, KthOffsets(ids))

-----------------------------------------------------------------------------
\* However values are brought together, each key gets all of its values, once, in
\* their order, whether it is frequent or shares its bucket; and the k-th smallest is
\* one of the k-th key.
GroupsAreComplete(s) ==
    LET q == Items(s)
        n == Len(s)
        m == MaxKey + 1
        vals(k) == Ids(SelectSeq(q, LAMBDA e : e[1] = k))
        byKey == {<<k, vals(k)>> : k \in ToSet(s)}
        matches(r, set) == Len(r) = Cardinality(ToSet(s)) /\ ToSet(r) = set
    IN  n > 0 =>
        /\ \A few \in BOOLEAN :
              /\ ReduceByIndex(q, m, few) = Tabulate(m, vals)
              /\ HistogramByIndex(q, m, few) = Tabulate(m, LAMBDA k : Len(vals(k)))
        /\ matches(ReduceByKey(q), byKey) /\ matches(GroupByKey(q), byKey)
        /\ matches(HistogramByKey(q), {<<k, Len(vals(k))>> : k \in ToSet(s)})
        /\ matches(RemoveDuplicates(q), ToSet(s))
        /\ \A integers \in BOOLEAN :
              GroupByKeyOrdered(q, integers) = Each(LAMBDA k : <<k, vals(k)>>, SetToSortSeq(ToSet(s), <))
        /\ GroupByIndex(q, m) = Tabulate(m, vals)
        /\ \A k \in 0 .. n - 1, iterators \in BOOLEAN : KthSmallest(q, k, iterators)[1] = Stably(q)[k + 1][1]

\* remove_duplicate_integers returns the integers that occur.
OnlyIntegersThatOccur(s) ==
    \A few \in BOOLEAN : s # <<>> =>
        RemoveDuplicateIntegers(Items(s), MaxKey + 1, few) = SetToSortSeq(ToSet(s), <)
=============================================================================
