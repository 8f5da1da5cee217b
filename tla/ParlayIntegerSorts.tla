------------------------- MODULE ParlayIntegerSorts -------------------------
(***************************************************************************)
(* src/parlay/internal/counting_sort.h and integer_sort.h.  The sorts work *)
(* between arrays and either copy or relocate, so what they leave in each  *)
(* array is part of the result: a cell still holds its object or is Raw.   *)
(***************************************************************************)
EXTENDS ParlaySequenceOps

CONSTANTS CountThreshold, CountUnit,        \* SEQ_THRESHOLD; elements per block of count_sort_
          RadixBits, BaseBits, OuterBits,   \* bits per round; at most for one count sort; per level
          SortBase                          \* PARLAY_INTEGER_SORT_BASE_CASE_SIZE

Bits(e, shift, width) == (e[1] \div 2 ^ shift) % 2 ^ width

-----------------------------------------------------------------------------
\* seq_count_: how many of the keys are each k below m
SeqCount(keys, m) == Tabulate(m, LAMBDA k : Cardinality({j \in DOMAIN keys : keys[j] = k}))

\* seq_write_ and seq_write_down_: every element to the place its key's offset is
\* at; going up it is taken before it is moved on, going down after.
SeqWrite(in, out, keys, offsets) ==
    FoldLeft(LAMBDA w, j : [out |-> WriteAt(w.out, w.at[keys[j] + 1], <<in[j]>>),
                            at |-> ReplaceAt(w.at, keys[j] + 1, w.at[keys[j] + 1] + 1)],
             [out |-> out, at |-> offsets], Upto(Len(in)))
SeqWriteDown(in, out, keys, offsets) ==
    FoldLeft(LAMBDA w, j : LET k == w.at[keys[j] + 1] - 1 IN
                           [out |-> WriteAt(w.out, k, <<in[j]>>), at |-> ReplaceAt(w.at, keys[j] + 1, k)],
             [out |-> out, at |-> offsets], Reverse(Upto(Len(in))))

\* seq_count_sort_ and seq_count_sort: the sorted array, and where each bucket starts
SeqCountSort(in, out, keys, m) ==
    LET ends == ScanInclusive(SeqCount(keys, m), Plus, TRUE)
        w == SeqWriteDown(in, out, keys, ends)
    IN  [out |-> w.out, offsets |-> Append(w.at, Len(in)), one |-> FALSE]

\* count_sort_.  With skip, an input whose keys are all alike stays where it is.
CountBlocks(n) == 1 + n \div CountUnit
CountSort(in, out, keys, m, skip) ==
    LET n == Len(in)
        blocks == CountBlocks(n)
        size == (n - 1) \div blocks + 1
        start(i) == Min({i * size, n})
        part(q, i) == Cut(q, start(i), Min({start(i) + size, n}))
        counts == Tabulate(blocks, LAMBDA i : SeqCount(part(keys, i), m))
        total(k) == FoldLeft(LAMBDA r, c : r + c[k + 1], 0, counts)
        offsets == ScanExclusive(Append(Tabulate(m, total), 0), Plus, TRUE).out
        before(i, k) == FoldLeft(LAMBDA r, c : r + c[k + 1], offsets[k + 1], Cut(counts, 0, i))
    IN  IF n < CountThreshold \/ blocks = 1 THEN SeqCountSort(in, out, keys, m)
        ELSE IF skip /\ Cardinality({k \in 0 .. m - 1 : total(k) > 0}) = 1
        THEN [out |-> out, offsets |-> offsets, one |-> TRUE]
        ELSE [out |-> FoldLeft(LAMBDA o, i : SeqWrite(part(in, i - 1), o, part(keys, i - 1),
                                                     Tabulate(m, LAMBDA k : before(i - 1, k))).out,
                               out, Upto(blocks)),
              offsets |-> offsets, one |-> FALSE]

\* group_by_small_int: a sequence for each key
GroupBySmallInt(in, keys, m) ==
    LET n == Len(in)
        size == IF n = 0 THEN 1 ELSE (n - 1) \div CountBlocks(n) + 1
        of(s, e, k) == FoldLeft(LAMBDA r, j : IF keys[j] = k THEN Append(r, in[j]) ELSE r, <<>>,
                                Cut(Upto(n), s, e))
        group(k) == LET parts == SlicedFor(n, size, LAMBDA s, e : of(s, e, k))
                        at == ScanTo(Each(Len, parts), Plus, FALSE, TRUE)
                    IN  PlaceBlocks(parts, at.out, at.total)
    IN  Tabulate(m, group)

-----------------------------------------------------------------------------
\* seq_radix_sort_: rounds between the arrays from the low bits on
RECURSIVE RadixRounds(_, _, _, _, _)
RadixRounds(in, out, shift, bits, swapped) ==
    IF bits = 0 THEN [in |-> in, out |-> out, swapped |-> swapped]
    ELSE LET width == Min({RadixBits, bits})
             from == IF swapped THEN out ELSE in
             to == IF swapped THEN in ELSE out
             sorted == SeqCountSort(from, to, Each(LAMBDA e : Bits(e, shift, width), from), 2 ^ width).out
             left == Raws(Len(in))
         IN  RadixRounds(IF swapped THEN sorted ELSE left, IF swapped THEN left ELSE sorted,
                         shift + width, bits - width, ~swapped)

MovedHome(r, inplace) ==
    LET left == Raws(Len(r.in))
    IN  IF r.swapped /\ inplace THEN [in |-> Relocate(r.in, r.out), out |-> left]
        ELSE IF ~r.swapped /\ ~inplace THEN [in |-> left, out |-> Relocate(r.out, r.in)]
        ELSE [in |-> r.in, out |-> r.out]
SeqRadixSort(in, out, bits, inplace) ==
    IF in = <<>> THEN [in |-> in, out |-> out] ELSE MovedHome(RadixRounds(in, out, 0, bits, FALSE), inplace)

\* seq_radix_sort: how the three arrays are used so that few elements move.  Unless
\* copy, Tmp is In.
RadixThrough(in, out, tmp, copy, inplace, bits) ==
    LET odd == ((bits - 1) \div RadixBits) % 2 = 1
        left == Raws(Len(in))
        kept(other) == IF copy THEN in ELSE other
        here(r) == [in |-> r.in, out |-> r.out, tmp |-> r.in, offsets |-> <<>>]
        there(r) == [in |-> kept(r.in), out |-> r.out, tmp |-> r.in, offsets |-> <<>>]
        back(r) == [in |-> kept(r.out), out |-> r.in, tmp |-> r.out, offsets |-> <<>>]
    IN  IF inplace THEN here(SeqRadixSort(in, out, bits, TRUE))
        ELSE IF odd THEN there(SeqRadixSort(IF copy THEN Relocate(tmp, in) ELSE in, out, bits, FALSE))
        ELSE back(SeqRadixSort(Relocate(out, in), IF copy THEN tmp ELSE left, bits, TRUE))

-----------------------------------------------------------------------------
\* integer_sort_r: sort by the low "bits" bits of the keys; m buckets wanted, 0 if
\* their offsets are not.
RECURSIVE IntegerSortR(_, _, _, _, _, _, _), SortBelow(_, _, _, _, _, _, _)

\* The base case: one count sort c, back in place if that is asked for
AfterCountSort(c, in, tmp, copy, inplace, m) ==
    LET left == IF copy THEN in ELSE Raws(Len(in))
        res == IF inplace /\ c.one THEN [in |-> in, out |-> c.out]
               ELSE IF inplace THEN [in |-> Relocate(left, c.out), out |-> left]
               ELSE [in |-> left, out |-> c.out]
    IN  [in |-> res.in, out |-> res.out, tmp |-> IF copy THEN tmp ELSE res.in,
         offsets |-> IF m = 0 THEN <<>> ELSE c.offsets]

\* The recursive case: the buckets of c are sorted by the bits below, from the other array
SortBelow(c, in, tmp, copy, inplace, bits, m) ==
    LET shift == bits - OuterBits
        inner == IF m > 0 THEN 2 ^ shift ELSE 0
        other == IF copy THEN tmp ELSE Raws(Len(in))
        sub(i) == IntegerSortR(Cut(c.out, c.offsets[i], c.offsets[i + 1]), Cut(other, c.offsets[i], c.offsets[i + 1]),
                               <<>>, FALSE, ~inplace, shift, inner)
        subs == Each(sub, Upto(2 ^ OuterBits))
        start(i) == Min({(i - 1) * inner, m})
        offsets(i) == Tabulate(Min({i * inner, m}) - start(i), LAMBDA j : c.offsets[i] + subs[i].offsets[j + 1])
        sortedIn(array) == FlattenSeq(Each(LAMBDA r : r[array], subs))
    IN  IF c.one THEN IntegerSortR(in, c.out, tmp, copy, inplace, shift, 0)
        ELSE [in |-> IF copy THEN in ELSE sortedIn("out"), out |-> sortedIn("in"), tmp |-> sortedIn("out"),
              offsets |-> IF m = 0 THEN <<>> ELSE Append(FlattenSeq(Each(offsets, Upto(2 ^ OuterBits))), Len(in))]

IntegerSortR(in, out, tmp, copy, inplace, bits, m) ==
    LET left == IF copy THEN in ELSE Raws(Len(in))
        counted(width, shift, buckets, skip) ==
            CountSort(in, out, Each(LAMBDA e : Bits(e, shift, width), in), buckets, skip)
    IN  IF bits = 0
        THEN IF inplace THEN [in |-> in, out |-> out, tmp |-> in, offsets |-> <<>>]
             ELSE [in |-> left, out |-> Relocate(out, in), tmp |-> IF copy THEN tmp ELSE left, offsets |-> <<>>]
        ELSE IF Len(in) < SortBase /\ m = 0 THEN RadixThrough(in, out, tmp, copy, inplace, bits)
        ELSE IF bits <= BaseBits
        THEN AfterCountSort(counted(bits, 0, IF m = 0 THEN 2 ^ bits ELSE m, inplace), in, tmp, copy, inplace, m)
        ELSE SortBelow(counted(OuterBits, bits - OuterBits, 2 ^ OuterBits, m = 0), in, tmp, copy, inplace, bits, m)

\* integer_sort_, integer_sort and integer_sort_inplace: bits 0 asks for those of the largest key
BitsOf(q, bits) == IF bits = 0 THEN Log2Up(FoldLeft(LAMBDA r, e : Max({r, e[1]}), 0, q) + 1) ELSE bits
IntegerSort(q, bits, m) == IntegerSortR(q, Raws(Len(q)), Raws(Len(q)), TRUE, FALSE, BitsOf(q, bits), m)
IntegerSortInplace(q, bits, m) == IntegerSortR(q, Raws(Len(q)), <<>>, FALSE, TRUE, BitsOf(q, bits), m)

\* get_counts: the edges between runs of equal keys give each key's start and end
GetCounts(q, m) ==
    LET n == Len(q)
        edges == {i \in 1 .. n - 1 : q[i][1] # q[i + 1][1]}
        start(k) == FoldSet(LAMBDA i, r : IF q[i + 1][1] = k THEN i ELSE r, 0, edges)
        end(k) == IF q[n][1] = k THEN n ELSE FoldSet(LAMBDA i, r : IF q[i][1] = k THEN i ELSE r, 0, edges)
    IN  IF n = 0 THEN <<>> ELSE Tabulate(m, LAMBDA k : end(k) - start(k))

IntegerSortWithCounts(q, m) ==
    IF q = <<>> THEN [out |-> <<>>, counts |-> Tabulate(m, LAMBDA k : 0)]
    ELSE LET r == IntegerSort(q, Log2Up(m), 0).out IN [out |-> r, counts |-> GetCounts(r, m)]
-----------------------------------------------------------------------------
\* Each sort by integer keys gives the one stable order.  What integer_sort_r
\* promises of its arrays holds at every depth: in place, In is sorted and Tmp holds
\* nothing; copying, Out is sorted and In is as it was; relocating, Out is sorted and
\* In is empty.  Offsets and counts are those of the keys.
IntegerSorts(s) ==
    LET q == Items(s)
        n == Len(s)
        m == MaxKey + 1
        first == Tabulate(m, LAMBDA k : Cardinality({i \in 1 .. n : s[i] < k}))
        counts == Tabulate(m, LAMBDA k : Cardinality({i \in 1 .. n : s[i] = k}))
        moved == IntegerSortR(q, Raws(n), <<>>, FALSE, FALSE, BitsOf(q, 0), 0)
    IN  /\ \A skip \in BOOLEAN :
              LET c == CountSort(q, Raws(n), s, m, skip) IN
              /\ c.out = IF c.one THEN Raws(n) ELSE Stably(q)
              /\ c.one => skip /\ Stably(q) = q
              /\ c.offsets = Append(first, n)
        /\ GroupBySmallInt(q, s, m) = Tabulate(m, LAMBDA k : SelectSeq(q, LAMBDA e : e[1] = k))
        /\ n > 0 => \A bits \in {0, Log2Up(m)} :
              LET copied == IntegerSort(q, bits, 0)
                  inplace == IntegerSortInplace(q, bits, 0)
              IN  /\ copied.in = q /\ copied.out = Stably(q) /\ copied.tmp = Raws(n)
                  /\ inplace.in = Stably(q) /\ inplace.out = Raws(n)
        /\ moved.in = Raws(n) /\ moved.out = Stably(q)
        /\ n > 0 => LET r == IntegerSort(q, Log2Up(m), m) IN r.out = Stably(q) /\ r.offsets = Append(first, n)
        /\ IntegerSortWithCounts(q, m) = [out |-> Stably(q), counts |-> counts]
=============================================================================
