-------------------------- MODULE ParlaySequenceOps --------------------------
(***************************************************************************)
(* src/parlay/internal/sequence_ops.h: reductions, scans, packs, filters   *)
(* and splits, which cut a range into blocks, work on the blocks in        *)
(* parallel and fit the results together; with the forms of                *)
(* src/parlay/primitives.h that call them.                                 *)
(*                                                                         *)
(* A monoid is a record [op, identity] whose op is a function of a pair.   *)
(* The checks use concatenation: two results that differ for any monoid    *)
(* differ for it.  A predicate is the set of what it holds for.            *)
(***************************************************************************)
EXTENDS ParlayArrays

CONSTANTS BlockSize,        \* _block_size
          ReduceSpread      \* the 4 in reduce's block size

Concat == [op |-> [p \in Seq(Nat) \X Seq(Nat) |-> p[1] \o p[2]], identity |-> <<>>]
Plus == [op |-> [p \in Nat \X Nat |-> p[1] + p[2]], identity |-> 0]

NumBlocks(n, size) == IF n = 0 THEN 0 ELSE 1 + (n - 1) \div size
CeilSqrt(n) == CHOOSE r \in 0 .. n : r * r >= n /\ \A t \in 0 .. r - 1 : t * t < n

\* sliced_for: F(s, e) for the bounds of each block
Slices(n, size) == Tabulate(NumBlocks(n, size), LAMBDA i : <<i * size, Min({i * size + size, n})>>)
SlicedFor(n, size, F(_, _)) == Each(LAMBDA b : F(b[1], b[2]), Slices(n, size))

ReduceSerial(q, m) ==
    IF q = <<>> THEN m.identity ELSE FoldLeft(LAMBDA r, e : m.op[<<r, e>>], Head(q), Tail(q))

RECURSIVE Reduce(_, _)
Reduce(q, m) ==
    LET n == Len(q)
        size == Max({BlockSize, ReduceSpread * CeilSqrt(n)})
    IN  IF n = 0 THEN m.identity
        ELSE IF NumBlocks(n, size) = 1 THEN ReduceSerial(q, m)
        ELSE Reduce(SlicedFor(n, size, LAMBDA s, e : ReduceSerial(Cut(q, s, e), m)), m)

\* Mutant: an exclusive step writes before it reads, which is wrong in place only.
ScanSerialWritesFirst(q, m, offset, inclusive, inplace) ==
    LET step(w, i) == LET t == IF inplace /\ ~inclusive THEN w.r ELSE w.in[i]
                          next == m.op[<<w.r, t>>]
                          o == IF inclusive THEN next ELSE w.r
                      IN  [in |-> IF inplace THEN ReplaceAt(w.in, i, o) ELSE w.in,
                           out |-> Append(w.out, o), r |-> next]
    IN  FoldLeft(step, [in |-> q, out |-> <<>>, r |-> offset], Upto(Len(q)))

\* scan_serial; in place, In and Out are one array
ScanSerial(q, m, offset, inclusive, inplace) ==
    LET step(w, i) == LET t == w.in[i]
                          next == m.op[<<w.r, t>>]
                          o == IF inclusive THEN next ELSE w.r
                      IN  [in |-> IF inplace THEN ReplaceAt(w.in, i, o) ELSE w.in,
                           out |-> Append(w.out, o), r |-> next]
    IN  FoldLeft(step, [in |-> q, out |-> <<>>, r |-> offset], Upto(Len(q)))

\* scan_: the scanned sequence and its total
ScanTo(q, m, inclusive, inplace) ==
    LET n == Len(q)
        serial(b, offset) == ScanSerial(b, m, offset, inclusive, inplace)
    IN  IF NumBlocks(n, BlockSize) <= 2
        THEN LET w == serial(q, m.identity) IN [out |-> w.out, total |-> w.r]
        ELSE LET sums == SlicedFor(n, BlockSize, LAMBDA s, e : ReduceSerial(Cut(q, s, e), m))
                 w == ScanSerial(sums, m, m.identity, FALSE, TRUE)
             IN  [out |-> FlattenSeq(SlicedFor(n, BlockSize, LAMBDA s, e :
                                         serial(Cut(q, s, e), w.out[s \div BlockSize + 1]).out)),
                  total |-> w.r]

\* scan, scan_inclusive and their inplace forms
ScanExclusive(q, m, inplace) == ScanTo(q, m, FALSE, inplace)
ScanInclusive(q, m, inplace) == ScanTo(q, m, TRUE, inplace).out

-----------------------------------------------------------------------------
\* pack_serial_at; flags are the positions, from 0, that are kept
PackSerialAt(q, first, kept) ==
    FoldLeft(LAMBDA r, i : IF first + i - 1 \in kept THEN Append(r, q[i]) ELSE r, <<>>, Upto(Len(q)))

\* Every block writes its elements at its offset in the output, in a slice that
\* ends where the next block's begins.
PlaceBlocks(blocks, offsets, m) ==
    LET end(i) == IF i = Len(blocks) THEN m ELSE offsets[i + 1]
    IN  FoldLeft(LAMBDA out, i : IF offsets[i] + Len(blocks[i]) > end(i) THEN <<Lost>>
                                 ELSE WriteAt(out, offsets[i], blocks[i]),
                 Raws(m), Upto(Len(blocks)))

\* pack, pack_out, filter_map and filter_out: count in every block, scan the
\* counts, write every block
PackBlocks(q, kept) ==
    LET n == Len(q)
        blocks == SlicedFor(n, BlockSize, LAMBDA s, e : PackSerialAt(Cut(q, s, e), s, kept))
        counts == SlicedFor(n, BlockSize, LAMBDA s, e : Cardinality({j \in kept : s <= j /\ j < e}))
        sums == ScanTo(counts, Plus, FALSE, TRUE)
    IN  PlaceBlocks(blocks, sums.out, sums.total)

Pack(q, kept) ==
    IF NumBlocks(Len(q), BlockSize) = 1 THEN PackSerialAt(q, 0, kept) ELSE PackBlocks(q, kept)
PackInto(q, kept) ==
    IF NumBlocks(Len(q), BlockSize) <= 1 THEN PackSerialAt(q, 0, kept) ELSE PackBlocks(q, kept)
PackIndex(n, kept) == Pack(Tabulate(n, LAMBDA i : i), kept)

PlacesIn(q, set) == {j \in 0 .. Len(q) - 1 : q[j + 1] \in set}
FilterMap(q, f, g) == PackBlocks(Each(LAMBDA e : g[e], q), PlacesIn(q, f))
Filter(q, f) == FilterMap(q, f, [e \in ToSet(q) |-> e])
FilterInto(q, f) == PackBlocks(q, PlacesIn(q, f))

\* split_three: first the elements of class 0, then of class 1, then the others
SplitThree(q, class) ==
    LET n == Len(q)
        count(c) == SlicedFor(n, BlockSize, LAMBDA s, e : Cardinality({j \in s + 1 .. e : class[q[j]] = c}))
        sums0 == ScanTo(count(0), Plus, FALSE, TRUE)
        sums1 == ScanTo(count(1), Plus, FALSE, TRUE)
        of(s, e, c) == SelectSeq(Cut(q, s, e), LAMBDA x : class[x] = c)
        write(out, b) ==
            LET s == b * BlockSize
                e == Min({s + BlockSize, n})
                c0 == sums0.out[b + 1]
                c1 == sums1.out[b + 1]
            IN  WriteAt(WriteAt(WriteAt(out, c0, of(s, e, 0)), sums0.total + c1, of(s, e, 1)),
                        sums0.total + sums1.total + (s - c0 - c1), of(s, e, 2))
    IN  [out |-> FoldLeft(write, Raws(n), Tabulate(NumBlocks(n, BlockSize), LAMBDA b : b)),
         m0 |-> sums0.total, m1 |-> sums1.total]

\* split_two: first the elements whose flag is not set
SplitTwo(q, flagged) ==
    LET n == Len(q)
        sums == ScanTo(SlicedFor(n, BlockSize, LAMBDA s, e : Cardinality({j \in s + 1 .. e : q[j] \notin flagged})),
                       Plus, FALSE, TRUE)
        write(out, b) ==
            LET s == b * BlockSize
                part == Cut(q, s, Min({s + BlockSize, n}))
                c0 == sums.out[b + 1]
            IN  WriteAt(WriteAt(out, c0, SelectSeq(part, LAMBDA x : x \notin flagged)),
                        s + (sums.total - c0), SelectSeq(part, LAMBDA x : x \in flagged))
    IN  [out |-> FoldLeft(write, Raws(n), Tabulate(NumBlocks(n, BlockSize), LAMBDA b : b)), m |-> sums.total]

-----------------------------------------------------------------------------
Odd(e) == e[1] % 2 = 1
OddOnes(q) == {e \in ToSet(q) : Odd(e)}
ThreeWay(e) == IF e[1] > 1 THEN 2 ELSE e[1]

\* However a range falls into blocks, the results are those of one pass over it:
\* nothing is lost, doubled or reordered at a block's edge, in place or not.
BlockedOperations(s) ==
    LET q == Items(s)
        n == Len(s)
        words == Each(LAMBDA e : <<e[1]>>, q)
        odds == OddOnes(q)
        odd == SelectSeq(q, Odd)
    IN  /\ Reduce(words, Concat) = s
        /\ \A inplace \in BOOLEAN :
              /\ ScanExclusive(words, Concat, inplace) = [out |-> Tabulate(n, LAMBDA i : Cut(s, 0, i)), total |-> s]
              /\ ScanInclusive(words, Concat, inplace) = Tabulate(n, LAMBDA i : Cut(s, 0, i + 1))
        /\ LET kept == {j \in 0 .. n - 1 : Odd(q[j + 1])} IN
           /\ Pack(q, kept) = odd /\ PackInto(q, kept) = odd
           /\ PackIndex(n, kept) = SetToSortSeq(kept, <)
        /\ Filter(q, odds) = odd /\ FilterInto(q, odds) = odd
        /\ FilterMap(q, odds, [e \in ToSet(q) |-> e[1]]) = Keys(odd)
        /\ SplitThree(q, [e \in ToSet(q) |-> ThreeWay(e)]) =
              [out |-> FlattenSeq(Tabulate(3, LAMBDA c : SelectSeq(q, LAMBDA e : ThreeWay(e) = c))),
               m0 |-> Len(SelectSeq(q, LAMBDA e : ThreeWay(e) = 0)),
               m1 |-> Len(SelectSeq(q, LAMBDA e : ThreeWay(e) = 1))]
        /\ SplitTwo(q, odds) = [out |-> SelectSeq(q, LAMBDA e : ~Odd(e)) \o odd, m |-> n - Len(odd)]
=============================================================================
