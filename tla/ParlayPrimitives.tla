-------------------------- MODULE ParlayPrimitives --------------------------
(***************************************************************************)
(* src/parlay/primitives.h: what is built on the operations of             *)
(* sequence_ops.h, the sorts and the delayed views.  Where the code        *)
(* returns an iterator, the operator gives its distance from the begin.    *)
(***************************************************************************)
EXTENDS ParlaySampleSort, ParlayDelayed

CONSTANTS FindGranularity,  \* how far find_if_index looks before it looks in parallel
          LessThreshold     \* the size at which operator< calls lexicographical_compare

CountIfIndex(n, hits) == Reduce(Tabulate(n, LAMBDA i : IF i \in hits THEN 1 ELSE 0), Plus)

\* find_if_index: the first of the hits in ever larger blocks; the iterations of a
\* block write the least of theirs with write_min.
RECURSIVE FindFromSkipping(_, _, _, _)
FindFromSkipping(n, hits, start, size) ==
    LET found == hits \cap start .. Min({n, start + size}) - 1 IN
    IF start >= n THEN n ELSE IF found # {} THEN Min(found)
    ELSE FindFromSkipping(n, hits, start + 2 * size, 2 * size)

RECURSIVE FindFrom(_, _, _, _)
FindFrom(n, hits, start, size) ==
    LET found == hits \cap start .. Min({n, start + size}) - 1 IN
    IF start >= n THEN n ELSE IF found # {} THEN Min(found) ELSE FindFrom(n, hits, start + size, 2 * size)

FindIfIndex(n, hits) ==
    LET first == hits \cap 0 .. Min({FindGranularity, n}) - 1 IN
    IF first # {} THEN Min(first) ELSE IF n <= FindGranularity THEN n
    ELSE FindFrom(n, hits, FindGranularity, 2 * FindGranularity)

-----------------------------------------------------------------------------
CountIf(q, p) == CountIfIndex(Len(q), PlacesIn(q, p))
AllOf(q, p) == CountIf(q, p) = Len(q)
AnyOf(q, p) == CountIf(q, p) > 0
NoneOf(q, p) == CountIf(q, p) = 0

Outside(q, p) == {i \in 0 .. Len(q) - 1 : q[i + 1] \notin p}
WithKey(q, k) == {e \in ToSet(q) : e[1] = k}
FindIf(q, p) == FindIfIndex(Len(q), PlacesIn(q, p))
FindIfNot(q, p) == FindIfIndex(Len(q), Outside(q, p))
FindFirstOf(q, r) == FindIfIndex(Len(q), {i \in 0 .. Len(q) - 1 : FindIf(r, WithKey(r, q[i + 1][1])) # Len(r)})

\* Not for an empty q: size - 1 is taken unsigned.
AdjacentFind(q) ==
    LET last == Len(q) - 1
        i == FindIfIndex(last, {j \in 0 .. last - 1 : q[j + 1][1] = q[j + 2][1]})
    IN  IF i = last THEN Len(q) ELSE i

Differences(q, r) == {i \in 0 .. Min({Len(q), Len(r)}) - 1 : q[i + 1][1] # r[i + 1][1]}
Mismatch(q, r) == FindIfIndex(Min({Len(q), Len(r)}), Differences(q, r))

MatchesAt(q, i, r) == \A j \in 1 .. Len(r) : q[i + j][1] = r[j][1]
Search(q, r) == FindIfIndex(Len(q), {i \in 0 .. Len(q) - 1 : i + Len(r) <= Len(q) /\ MatchesAt(q, i, r)})

\* Not for an r longer than q by 2 or more: n1 - n2 + 1 is taken unsigned.
FindEnd(q, r) ==
    LET places == Len(q) - Len(r) + 1
        i == FindIfIndex(places, {j \in 0 .. places - 1 : MatchesAt(q, Len(q) - j - Len(r), r)})
    IN  IF r = <<>> \/ i = places THEN Len(q) ELSE Len(q) - i - Len(r)

EqualRanges(q, r) ==
    Len(q) = Len(r) /\ FindIfIndex(Len(q), Differences(q, r)) = Len(q)

LexicographicalCompare(q, r) ==
    LET m == Min({Len(q), Len(r)})
        i == FindIfIndex(m, {j \in 0 .. m - 1 : Less(q[j + 1], r[j + 1]) \/ Less(r[j + 1], q[j + 1])})
    IN  IF i < m THEN Less(q[i + 1], r[i + 1]) ELSE Len(q) < Len(r)

\* operator<
SequenceLess(q, r) ==
    LET m == Min({Len(q), Len(r)})
        differ == {i \in 1 .. m : q[i][1] # r[i][1]}
    IN  IF Len(q) > LessThreshold THEN LexicographicalCompare(q, r)
        ELSE IF differ = {} THEN Len(q) < Len(r) ELSE Less(q[Min(differ)], r[Min(differ)])

-----------------------------------------------------------------------------
Unique(q) == Pack(q, {i \in 0 .. Len(q) - 1 : i = 0 \/ q[i + 1][1] # q[i][1]})

\* Reductions over positions; the identity, a position past the end, is never compared.
\* before holds the pairs <<i, j>> of which the element at i is to be preferred.
Pick(n, before) ==
    [op |-> [p \in (0 .. n) \X (0 .. n) |-> IF <<p[2], p[1]>> \notin before THEN p[1] ELSE p[2]], identity |-> n]
ElementBy(n, before) == Reduce(Tabulate(n, LAMBDA i : i), Pick(n, before))
Pairs(q) == (0 .. Len(q) - 1) \X (0 .. Len(q) - 1)
MinElement(q) == ElementBy(Len(q), {p \in Pairs(q) : Less(q[p[1] + 1], q[p[2] + 1])})
MaxElement(q) == ElementBy(Len(q), {p \in Pairs(q) : Less(q[p[2] + 1], q[p[1] + 1])})
MinMaxElement(q) ==
    LET places == (0 .. Len(q)) \X (0 .. Len(q))
        both == [op |-> [p \in places \X places |->
                            <<IF ~Less(q[p[2][1] + 1], q[p[1][1] + 1]) THEN p[1][1] ELSE p[2][1],
                              IF ~Less(q[p[1][2] + 1], q[p[2][2] + 1]) THEN p[1][2] ELSE p[2][2]>>],
                 identity |-> <<Len(q), Len(q)>>]
    IN  IF q = <<>> THEN <<0, 0>> ELSE Reduce(Tabulate(Len(q), LAMBDA i : <<i, i>>), both)

ReverseRange(q) == Tabulate(Len(q), LAMBDA i : q[Len(q) - i])
ReverseInplace(q) == FoldLeft(LAMBDA a, i : Exchange(a, i, Len(q) - i + 1), q, Upto(Len(q) \div 2))
Rotate(q, t) == Tabulate(Len(q), LAMBDA i : q[(IF i + t < Len(q) THEN i + t ELSE i + t - Len(q)) + 1])

Descents(q) == Tabulate(Len(q) - 1, LAMBDA i : Less(q[i + 2], q[i + 1]))
Or == [op |-> [p \in BOOLEAN \X BOOLEAN |-> p[1] \/ p[2]], identity |-> FALSE]
IsSortedRange(q) == q = <<>> \/ ~Reduce(Descents(q), Or)
IsSortedUntil(q) == IF q = <<>> THEN 0 ELSE FindIfIndex(Len(q) - 1, {i \in 0 .. Len(q) - 2 : Less(q[i + 2], q[i + 1])}) + 1

IsPartitioned(q, f) ==
    LET n == Len(q)
        d == FindIfIndex(n, Outside(q, f))
    IN  d = n \/ FindIfIndex(n - d - 1, {i \in 0 .. n - d - 2 : q[d + i + 2] \in f}) = n - d - 1

RemoveIf(q, p) == Pack(q, Outside(q, p))

\* flatten: copied, or relocated from a sequence of sequences that is then cleared
FlattenRange(seqs) ==
    LET offsets == ScanTo(Each(Len, seqs), Plus, FALSE, TRUE) IN
    IF seqs = <<>> THEN <<>>
    ELSE FoldLeft(LAMBDA out, i : WriteAt(out, offsets.out[i], seqs[i]), Raws(offsets.total), Upto(Len(seqs)))

-----------------------------------------------------------------------------
Edges(q, spaces) ==
    LET n == Len(q)
        isSpace(i) == q[i] \in spaces
    IN  {i \in 0 .. n : IF i = 0 THEN ~isSpace(1) ELSE IF i = n THEN ~isSpace(n) ELSE isSpace(i) # isSpace(i + 1)}

MapTokensSmall(q, spaces) ==
    LET places == RandomView(Tabulate(Len(q) + 1, LAMBDA i : i))
        locations == ToSequence(FilterOpView(places, Edges(q, spaces), [i \in 0 .. Len(q) |-> i]))
    IN  IF q = <<>> THEN <<>>
        ELSE Tabulate(Len(locations) \div 2, LAMBDA i : Cut(q, locations[2 * i + 1], locations[2 * i + 2]))

\* map_tokens: a scan carries how many tokens have begun and where the last one did
LastStart == [op |-> [p \in (Nat \X Nat) \X (Nat \X Nat) |->
                         IF p[2][1] = 0 THEN p[1] ELSE <<p[1][1] + p[2][1], p[2][2]>>],
              identity |-> <<0, 0>>]

MapTokens(q, spaces) ==
    LET n == Len(q)
        isSpace(i) == q[i] \in spaces
        isStart(i) == (i = 0 \/ isSpace(i)) /\ i # n /\ ~isSpace(i + 1)
        isEnd(i) == (i = n \/ isSpace(i + 1)) /\ i # 0 /\ ~isSpace(i)
        in == RandomView(Tabulate(n + 1, LAMBDA i : IF isStart(i) THEN <<1, i>> ELSE <<0, 0>>))
        z == ZipView(ScanView(in, LastStart, FALSE), RandomView(Tabulate(n + 1, LAMBDA i : i)))
        apply(out, x) == IF isEnd(x[2]) THEN WriteAt(out, x[1][1] - 1, <<Cut(q, x[1][2], x[2])>>) ELSE out
    IN  IF q = <<>> THEN <<>>
        ELSE FoldLeft(apply, Raws(DelayedTotal(in, LastStart)[1]), FlattenSeq(z.blocks))

MapSplitAt(q, flags) ==
    LET n == Len(q)
        locations == PackIndex(n, flags)
        m == Len(locations)
    IN  Tabulate(m + 1, LAMBDA i : Cut(q, IF i = 0 THEN 0 ELSE locations[i] + 1,
                                          IF i = m THEN n ELSE locations[i + 1] + 1))

RemoveDuplicatesOrdered(q) == Unique(SampleSort(q, TRUE, FALSE, TRUE))
AppendRanges(q, r) == Tabulate(Len(q) + Len(r), LAMBDA i : IF i < Len(q) THEN q[i + 1] ELSE r[i - Len(q) + 1])
MapMaybe(q, p, f) == ToSequence(FilterOpView(RandomView(q), p, f))
ZipRanges(q, r) == ToSequence(ZipView(RandomView(q), RandomView(r)))

\* rank: every position's place in the stable order, which for equal elements is not
\* the "number of elements in the range that compare less" of its comment
Rank(q) ==
    LET position == MergeSortInplace(Tabulate(Len(q), LAMBDA i : <<q[i + 1][1], i>>)).in
    IN  FoldLeft(LAMBDA r, i : WriteAt(r, position[i][2], <<i - 1>>), Raws(Len(q)), Upto(Len(q)))

-----------------------------------------------------------------------------
\* The first of a set of positions, or the end.
FirstOf(set, end) == IF set = {} THEN end ELSE Min(set)

\* Searches that double their blocks still report the first match, also one at a
\* block's edge; find_end the last; ties between equal elements go to the first.
\* adjacent_find of an empty range and find_end of a pattern longer by two or more,
\* which compute with a size that wrapped, are left out.
SearchesFindTheFirst(q, n) ==
    /\ \A k \in 0 .. MaxKey :
          LET those == WithKey(q, k)
              first == FirstOf({i \in 0 .. n - 1 : q[i + 1][1] = k}, n)
          IN  /\ FindIf(q, those) = first
              /\ FindIfNot(q, those) = FirstOf({i \in 0 .. n - 1 : q[i + 1][1] # k}, n)
              /\ CountIf(q, those) = Cardinality(those)
              /\ AnyOf(q, those) = (first < n) /\ NoneOf(q, those) = (first = n)
              /\ AllOf(q, those) = (\A i \in 1 .. n : q[i][1] = k)
              /\ \A j \in 0 .. MaxKey :
                    LET r == <<<<k, 1>>, <<j, 2>>>>
                        places == {i \in 0 .. n - 2 : MatchesAt(q, i, r)}
                    IN  /\ Search(q, r) = FirstOf(places, n)
                        /\ n + 1 >= Len(r) => FindEnd(q, r) = IF places = {} THEN n ELSE Max(places)
                        /\ FindFirstOf(q, r) = FirstOf({i \in 0 .. n - 1 : q[i + 1][1] \in {j, k}}, n)
    /\ n > 0 => AdjacentFind(q) = FirstOf({i \in 0 .. n - 2 : q[i + 1][1] = q[i + 2][1]}, n)
    /\ MinElement(q) = FirstOf({i \in 0 .. n - 1 : \A j \in 1 .. n : ~Less(q[j], q[i + 1])}, n)
    /\ MaxElement(q) = FirstOf({i \in 0 .. n - 1 : \A j \in 1 .. n : ~Less(q[i + 1], q[j])}, n)
    /\ MinMaxElement(q) = <<MinElement(q), MaxElement(q)>>
    /\ IsSortedUntil(q) = FirstOf({i \in 1 .. n - 1 : Less(q[i + 1], q[i])}, n)
    /\ IsSortedRange(q) = (Stably(q) = q)
    /\ IsPartitioned(q, OddOnes(q)) = (SelectSeq(q, Odd) \o SelectSeq(q, LAMBDA e : ~Odd(e)) = q)

\* The rank that primitives.h documents.
NumberLess(q, i) == Cardinality({j \in 1 .. Len(q) : Less(q[j], q[i])})

\* The two ways to compare, to cut into tokens and to reverse agree, and what is cut
\* comes back together.  A rank is the documented one for the first of equal elements
\* only: each later one also counts the equal elements before it.
PrimitivesAgree(s) ==
    LET q == Items(s)
        n == Len(s)
        space(e) == e[1] = 0
        spaces == WithKey(q, 0)
        pieces == MapSplitAt(q, {i \in 0 .. n - 1 : space(q[i + 1])})
        tokens == SelectSeq(Each(LAMBDA p : SelectSeq(p, LAMBDA e : ~space(e)), pieces), LAMBDA p : p # <<>>)
    IN  /\ SearchesFindTheFirst(q, n)
        /\ \A k \in 0 .. n :
              LET a == Cut(q, 0, k)
                  b == Cut(q, k, n)
                  m == Mismatch(a, b)
              IN  /\ AppendRanges(a, b) = q /\ Rotate(q, k) = b \o a
                  /\ m = Len(LongestCommonPrefix({Keys(a), Keys(b)}))
                  /\ EqualRanges(a, b) = (Keys(a) = Keys(b))
                  /\ SequenceLess(a, b) = LexicographicalCompare(a, b)
                  /\ LexicographicalCompare(a, b) = (m < n - k /\ (m = k \/ Less(a[m + 1], b[m + 1])))
                  /\ ZipRanges(a, b) = Tabulate(Min({k, n - k}), LAMBDA i : <<a[i + 1], b[i + 1]>>)
        /\ FlattenSeq(pieces) = q /\ FlattenRange(pieces) = q
        /\ MapTokensSmall(q, spaces) = tokens /\ MapTokens(q, spaces) = tokens
        /\ ReverseRange(q) = ReverseInplace(q) /\ ReverseRange(ReverseInplace(q)) = q
        /\ RemoveIf(q, spaces) = SelectSeq(q, LAMBDA e : ~space(e))
        /\ MapMaybe(q, OddOnes(q), [e \in ToSet(q) |-> e[1]]) = Keys(SelectSeq(q, Odd))
        /\ Keys(RemoveDuplicatesOrdered(q)) = SetToSortSeq(ToSet(s), <)
        /\ \A i \in 1 .. n : Rank(q)[i] = NumberLess(q, i) + Cardinality({j \in 1 .. i - 1 : q[j][1] = q[i][1]})
=============================================================================
