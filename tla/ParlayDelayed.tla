---------------------------- MODULE ParlayDelayed ----------------------------
(***************************************************************************)
(* src/parlay/internal/delayed/: block-iterable views, whose operations    *)
(* run when the view is read, a block of block_size elements at a time and *)
(* blocks in parallel; and block_delayed::filter, the one operation of the *)
(* older block_delayed.h that is used.                                     *)
(*                                                                         *)
(* A view is what its readers get: its size, and for each block what lies  *)
(* from begin_block to end_block.  A reader puts block i at i * block_size *)
(* of its output, so every view must keep its blocks full and aligned.     *)
(***************************************************************************)
EXTENDS ParlaySequenceOps

CONSTANT DelayedBlock       \* delayed::block_size

Blocks(n) == NumBlocks(n, DelayedBlock)

RandomView(q) == [n |-> Len(q), blocks |-> SlicedFor(Len(q), DelayedBlock, LAMBDA s, e : Cut(q, s, e))]
MapView(v, f) == [v EXCEPT !.blocks = Each(LAMBDA b : Each(LAMBDA e : f[e], b), v.blocks)]

-----------------------------------------------------------------------------
\* terminal.h
ToSequence(v) ==
    FoldLeft(LAMBDA out, i : WriteAt(out, (i - 1) * DelayedBlock, v.blocks[i]), Raws(v.n), Upto(Len(v.blocks)))

DelayedReduce(v, m) ==
    Reduce(Each(LAMBDA b : FoldLeft(LAMBDA r, e : m.op[<<r, e>>], m.identity, b), v.blocks), m)

-----------------------------------------------------------------------------
\* The sums that a scan's blocks start from: one more than blocks, unless the one
\* block of an inclusive scan needs none.
BlockSums(v, m, inclusive) ==
    LET n == Len(v.blocks)
        sum(b) == FoldLeft(LAMBDA r, e : m.op[<<r, e>>], m.identity, b)
        before == IF n = 1 /\ inclusive THEN <<m.identity>>
                  ELSE ScanTo(Append(Each(sum, v.blocks), m.identity), m, FALSE, TRUE).out
    IN  IF inclusive THEN Tabulate(Len(before), LAMBDA i : IF i < n THEN m.op[<<before[i + 1], v.blocks[i + 1][1]>>]
                                                           ELSE before[i + 1])
        ELSE before

DelayedTotal(v, m) == ScanTo(Append(Each(LAMBDA b : ReduceSerial(b, m), v.blocks), m.identity), m, FALSE, TRUE).total

\* Reading a block: the value at hand, then ++, which takes in the element just
\* passed or, if inclusive, the one arrived at.
ScanView(v, m, inclusive) ==
    LET sums == BlockSums(v, m, inclusive)
        read(i) == LET b == v.blocks[i]
                       taken(j) == IF inclusive THEN b[j + 1] ELSE b[j]
                       more(r, j) == Append(r, m.op[<<Last(r), taken(j)>>])
                   IN  IF b = <<>> THEN <<>> ELSE FoldLeft(more, <<sums[i]>>, Upto(Len(b) - 1))
    IN  [v EXCEPT !.blocks = Each(read, Upto(Len(@)))]

-----------------------------------------------------------------------------
\* flatten.h.  An iterator is <<outer, inner>>, both from 0; <<Len(seqs), 0>> is the end.
Offsets(seqs) == ScanTo(Each(Len, seqs), Plus, FALSE, TRUE)

RECURSIVE OverEmpty(_, _)
OverEmpty(seqs, it) ==
    IF it[2] < Len(seqs[it[1] + 1]) THEN it
    ELSE IF it[1] + 1 = Len(seqs) THEN <<Len(seqs), 0>> ELSE OverEmpty(seqs, <<it[1] + 1, 0>>)
Next1(seqs, it) == OverEmpty(seqs, <<it[1], it[2] + 1>>)

RECURSIVE Walk(_, _, _)
Walk(seqs, it, last) ==
    IF it = last THEN <<>> ELSE IF it[1] = Len(seqs) THEN <<Lost>>
    ELSE <<seqs[it[1] + 1][it[2] + 1]>> \o Walk(seqs, Next1(seqs, it), last)

\* std::upper_bound in the offsets, less one: the inner range that holds element "start"
HolderOf(offsets, start) == Cardinality({j \in DOMAIN offsets : offsets[j] <= start}) - 1

\* initialize_iterators over a random-access range
FlattenStarts(seqs) ==
    LET o == Offsets(seqs) IN
    Append(Tabulate(Blocks(o.total), LAMBDA i : LET j == HolderOf(o.out, i * DelayedBlock) IN
                                                <<j, i * DelayedBlock - o.out[j + 1]>>),
           <<Len(seqs), 0>>)

\* initialize_iterators over a block-iterable one: each input block sets the starts
\* that fall into it.
OutBlockOffsets(seqs) ==
    LET o == Offsets(seqs) IN Tabulate(Blocks(o.total), LAMBDA i : HolderOf(o.out, i * DelayedBlock))
FirstOutBlock(holders, first) == Cardinality({b \in DOMAIN holders : holders[b] < first})

\* The holder that an input block starts with is read before the bound is tested: when no
\* output block starts in this block or later, the read is past the end and gives
\* whatever lies there, past.
FirstHolder(holders, i, past) ==
    LET first == FirstOutBlock(holders, i * DelayedBlock) IN
    IF first < Len(holders) THEN holders[first + 1] ELSE past

FlattenStartsByBlock(v, past) ==
    LET seqs == ToSequence(v)
        o == Offsets(seqs)
        holders == OutBlockOffsets(seqs)
        found(i) == {b \in FirstOutBlock(holders, i * DelayedBlock) .. Len(holders) - 1 :
                        holders[b + 1] \in FirstHolder(holders, i, past) .. Min({(i + 1) * DelayedBlock, Len(seqs)}) - 1}
        start(b) == LET finders == {i \in 0 .. Len(v.blocks) - 1 : b \in found(i)} IN
                    IF finders = {} THEN Raw ELSE IF Cardinality(finders) > 1 THEN Lost
                    ELSE <<holders[b + 1], b * DelayedBlock - o.out[holders[b + 1] + 1]>>
    IN  Append(Tabulate(Len(holders), start), <<Len(seqs), 0>>)

\* A value from before the block would advance the block's iterator backwards, which
\* its iterators cannot do: nothing is said of what follows.
AdvancesForward(v, past) ==
    LET holders == OutBlockOffsets(ToSequence(v)) IN
    holders # <<>> => \A i \in 0 .. Len(v.blocks) - 1 : FirstHolder(holders, i, past) >= i * DelayedBlock

FlattenFrom(seqs, starts) ==
    [n |-> Offsets(seqs).total,
     blocks |-> Tabulate(Len(starts) - 1, LAMBDA i : Walk(seqs, starts[i + 1], starts[i + 2]))]
Flatten(seqs) == FlattenFrom(seqs, FlattenStarts(seqs))

-----------------------------------------------------------------------------
\* filter.h and filter_op.h: what each block keeps, in a buffer of the size of a
\* block, flattened
FilterBlock(b, p, size) == LET kept == SelectSeq(b, LAMBDA e : e \in p) IN IF Len(kept) > size THEN <<Lost>> ELSE kept
FilterView(v, p) == Flatten(Each(LAMBDA b : FilterBlock(b, p, Min({v.n, DelayedBlock})), v.blocks))
FilterOpView(v, p, f) ==
    Flatten(Each(LAMBDA b : Each(LAMBDA e : f[e], FilterBlock(b, p, Min({v.n, DelayedBlock}))), v.blocks))

\* zip.h: as many blocks as the shorter view has
ZipView(v, w) ==
    LET n == Min({v.n, w.n})
        pairs(i) == LET b == v.blocks[i] c == w.blocks[i] IN
                    Each(LAMBDA j : <<b[j], c[j]>>, Upto(Min({DelayedBlock, n - (i - 1) * DelayedBlock})))
    IN  [n |-> n, blocks |-> Each(pairs, Upto(Blocks(n)))]

\* block_delayed::filter
BlockDelayedFilter(q, p) ==
    LET parts == SlicedFor(Len(q), DelayedBlock, LAMBDA s, e : SelectSeq(Cut(q, s, e), LAMBDA x : x \in p))
        sums == ScanTo(Each(Len, parts), Plus, FALSE, TRUE)
    IN  IF Len(parts) = 1 THEN parts[1] ELSE PlaceBlocks(parts, sums.out, sums.total)

-----------------------------------------------------------------------------
\* Ranges of the lengths that s gives.
Nested(s) == Tabulate(Len(s), LAMBDA i : Tabulate(s[i + 1], LAMBDA j : <<i, j>>))
PrefixesOf(q, from) == Tabulate(Len(q), LAMBDA i : Cut(q, 0, i + from))

\* Views stacked on views read as the operations on whole sequences would: every
\* block keeps its place, whatever the filters below it leave of each block and
\* whichever inner ranges are empty.  Flattening a block-iterable view reads a holder
\* past the end for some of these; no start depends on a value it can go on with.
ViewsReadInOrder(s) ==
    LET q == Items(s)
        r == RandomView(q)
        f == FilterView(r, OddOnes(q))
        odd == SelectSeq(q, Odd)
        word == [e \in ToSet(q) |-> <<e[1]>>]
        large == {e \in ToSet(q) : e[1] > 1}
        deep == Nested(s)
        byBlock == FilterView(RandomView(deep), ToSet(deep))
    IN  /\ ToSequence(f) = odd
        /\ BlockDelayedFilter(q, OddOnes(q)) = odd
        /\ ToSequence(FilterOpView(f, large, word)) = Each(LAMBDA e : word[e], SelectSeq(odd, LAMBDA e : e \in large))
        /\ \A v \in {r, f} :
              LET words == MapView(v, word)
                  all == Keys(ToSequence(v))
              IN  /\ DelayedReduce(words, Concat) = all
                  /\ DelayedTotal(words, Concat) = all
                  /\ ToSequence(ScanView(words, Concat, FALSE)) = PrefixesOf(all, 0)
                  /\ ToSequence(ScanView(words, Concat, TRUE)) = PrefixesOf(all, 1)
        /\ ToSequence(ZipView(f, r)) = Tabulate(Len(odd), LAMBDA i : <<odd[i + 1], q[i + 1]>>)
        /\ ToSequence(Flatten(deep)) = FlattenSeq(deep)
        /\ \A past \in 0 .. Len(deep) : AdvancesForward(byBlock, past) =>
              ToSequence(FlattenFrom(deep, FlattenStartsByBlock(byBlock, past))) = FlattenSeq(deep)
=============================================================================
