------------------------------ MODULE MCParlay ------------------------------
(***************************************************************************)
(* ParlayLib's algorithms and containers, in one run; `which' says the one *)
(* a behaviour is about, the others rest.                                  *)
(*  - algorithms: the steps make every sequence s of up to KeysMax keys,   *)
(*    on which each algorithm is compared with its reference definition.   *)
(*  - short, long: parlay::sequence of a trivial type, that keeps two      *)
(*    elements inside the object, and of one that keeps all in buffers,    *)
(*    with a memory of its own.                                            *)
(*  - table: parlay::hashtable, seven cells and at most three keys at a    *)
(*    time that collide in every way, also around the end of the array.    *)
(***************************************************************************)
EXTENDS ParlayGrouping, ParlaySequence, TLC

CONSTANTS KeysMax,
          Key, M, Caller, MaxKeys, MaxTotal

VARIABLES which, s,
          longHeap, longObj, longAlive, longVal,
          firstIndex, TA, phase, task, total

longVars == <<longHeap, longObj, longAlive, longVal>>
tableVars == <<firstIndex, TA, phase, task, total>>
-----------------------------------------------------------------------------
\* Any function serves as a source of random bits.
HashTable == [i \in 0 .. 63 |-> 7 * i * i + 3 * i + 5]
KeyHashes == [k \in 0 .. 9 |-> 16 * k * k + (k \div 2) * 3 + 1]

FirstIndices == {[k \in Key |-> 6], [k \in Key |-> IF k > 2 THEN 6 ELSE 0],
                 [k \in Key |-> IF k % 2 = 0 THEN 6 ELSE 0],
                 [k \in Key |-> (k + 5) % M], [k \in Key |-> (9 - k) % M]}

SL == INSTANCE ParlaySequence WITH ShortCapacity <- 0,
          heap <- longHeap, obj <- longObj, alive <- longAlive, val <- longVal
HT == INSTANCE PhaseHashTable

ASSUME BuffersSuffice == SequenceConstants /\ SL!SequenceConstants
-----------------------------------------------------------------------------
AtRest(x) == x = Null

Init ==
    /\ which \in {"algorithms", "short", "long", "table"}
    /\ s = Null
    /\ SeqInit /\ SL!SeqInit
    /\ IF which = "table" THEN HT!TableInit
       ELSE AtRest(firstIndex) /\ AtRest(TA) /\ AtRest(phase) /\ AtRest(task) /\ AtRest(total)

\* The empty sequence, then each by a key longer
Lengthen == \/ s = Null /\ s' = <<>>
            \/ s # Null /\ Len(s) < KeysMax /\ \E k \in 0 .. MaxKey : s' = Append(s, k)

Next ==
    /\ UNCHANGED which
    /\ \/ which = "algorithms" /\ Lengthen /\ UNCHANGED <<seqVars, longVars, tableVars>>
       \/ which = "short" /\ SeqNext /\ UNCHANGED <<s, longVars, tableVars>>
       \/ which = "long" /\ SL!SeqNext /\ UNCHANGED <<s, seqVars, tableVars>>
       \/ which = "table" /\ HT!TableNext /\ UNCHANGED <<s, seqVars, longVars>>

vars == <<which, s, seqVars, longVars, tableVars>>
Spec == Init /\ [][Next]_vars

Interchangeable == Permutations(Name) \cup Permutations(Value) \cup Permutations(Caller)
-----------------------------------------------------------------------------
\* The algorithms are tried on the sequence that a step makes.
Of(holds(_)) == which = "algorithms" => holds(s')

\* Comparison sorts, the sample sort and the integer sorts return the stable, or some,
\* sorted rearrangement at every size, whatever blocks, pivots and buckets they choose.
SortsSort == [][Of(ComparisonSorts) /\ Of(SampleSorts) /\ Of(IntegerSorts)]_vars

\* What reduce, scan, pack and filter compute block by block, and what a delayed
\* sequence yields through its iterators, is what one pass over the elements computes.
BlocksActAsOnePass == [][Of(BlockedOperations) /\ Of(ViewsReadInOrder)]_vars

\* The searches, comparisons, splits and selections of primitives.h agree with what they
\* are to compute, on every sequence, save where adjacent_find and find_end wrap a size
\* around; a rank is one place in the sorted order, equal elements in theirs, which is
\* what rank returns and not what its comment says of equal elements.
PrimitivesAreRight == [][Of(PrimitivesAgree)]_vars

\* group_by, reduce_by, histogram and kth_smallest lose no element and give each to its
\* key, however the keys hash.
GroupsAreWhole == [][Of(GroupsAreComplete)]_vars

\* sequence.h, for elements that are kept in buffers and moved from: as ActsAsSequence.
\* hash_table.h: between phases the layout is the one of the keys that should be there.
LayoutsHold == SL!ActsAsSequence /\ (which = "table" => HT!HistoryIndependent)

\* group_by.h, remove_duplicate_integers: the integers that occur in its argument.
IntegersOccur == which = "algorithms" /\ s # Null => OnlyIntegersThatOccur(s)
=============================================================================
