# BigFANN in TLA+

Models of BigFANN's index construction and filtered nearest-neighbour queries, and of the
parallel library in its tree; the TLC configurations that check them; and TLAPS proofs about
the queue and the search that every query runs, the other ways a query is answered, the parallel
construction of the graphs, the parallel k-means, and the library's scheduler and memory management. Paths are relative to the repository (`src/run_query.cpp` and so on).

## The system

A data set is `N` vectors, each with a set of labels. A query is a vector and one or two
labels; its answer is the `K` nearest vectors that carry all its labels. A label is *big*
when more than `BIG_CUTOFF` vectors carry it.

| part (source) | state it keeps | operations | used by |
|---|---|---|---|
| label matrix (`utils.hpp`, `VertexSet.hpp`) | rows of labels, transposed rows of vectors | load and sort, `transpose`, `get_intersect_num`, `contains` | every program |
| in-group positions (`hash_subgroup`, `hash_table.hpp`) | open-addressing table per label | construct, `pos` | builder, queries |
| visited set (`hash_filter`, `hash_table.hpp`) | direct-mapped lossy table | construct, `contains`, `add` | both searches |
| search beam (`new_pqueue_t`, `pqueue.hpp`) | at most `L` entries sorted by distance, two cursors | `push`, `set_front_expanded`, `clear` | both searches |
| graph construction (`build_hybrid_graph.hpp`) | a graph per big label, one graph shared by all | batches of parallel insertions, pruning, reversal, arrays | `build_index` |
| pair intersections (`build_index.cpp`) | scratch bitmap, one row per pair of big labels | `build_multifilter_index` | `build_index` |
| inverted files (`ivf.hpp`) | centroids, membership, posting lists | `kmeans_cluster`, `process_filter_query` | `build_index`, queries |
| queries (`run_query.cpp`) | a beam or a list of the best `K` per query | `run_hybrid_query`: five cases | `run_query` |
| vertex sets (`VertexSet.hpp/.cpp`) | sorted arrays in pooled buffers, or views of rows | intersections, differences, bounds, in place or not | `contains`, `get_intersect_num` only |
| graph library (`graph.cpp`, `scan.hpp`, `custom_alloc.hpp`) | CSR arrays and their reverse | read and write; symmetrize, orient, reverse | arrays only |
| older queue (`pqueue_t`, `pqueue.hpp`) | sorted entries, one cursor | `push`, `batch_push`, `next`, `clear` | nothing |
| ground truth, generators, converters, parameters, logs | files | sequential scans and conversions | offline |
| Parlay scheduler (`parlay/scheduler.h`, `work_stealing_deque.h`) | a deque per worker, sleepers | `parallel_for`, `pardo`, stealing, shutdown | parallel loops, instead of OpenMP under `USE_PARLAY` |
| Parlay memory (`parlay/alloc.h`, `internal/`) | block lists, hazard pointers, thread ids | allocate, free; acquire, retire | Parlay's containers |
| Parlay algorithms and containers (`parlay/`) | arrays; `sequence`, `hashtable` | sorts, scans, filters, grouping; growth, moves; phases of insert and delete | each other |

How the parts interact. The builder loads and transposes the matrix, builds a position
table for each big label, then inserts vectors in random order. An inserted vector searches
each of its labels' graphs with a beam and a visited set of its own; the vertices it expands
become its neighbours, in the label's graph and, where two vectors have enough labels in
common, in the shared graph. Offline, all pairs of big labels are intersected and each big
label's vectors are clustered. A query takes one of five paths: a small label is scanned;
with two labels, a small one is scanned and filtered; with two big ones, a short row computed
in advance is scanned, or the nearest clusters of the smaller label are visited; a single
big label is searched in the graphs. Queries run in parallel and share only data that no
longer changes.

What is hard about this code:

- **Threads.** The tasks of a batch read and append to the lists of the same graphs without
  locks; k-means threads share nothing but reduce partial sums that live across iterations.
- **Cursors repaired without looking.** `push` shifts entries under two cursors and adjusts
  them from the insert position alone.
- **A visited set that forgets.** Vertices come back; termination and the uniqueness of
  results depend on how queue and filter cover for each other.
- **Lock-free parts.** The deque's last job goes to its owner or to one thief; a forked job
  lives on the stack of the call that forked it; a popped node is deleted while others still
  hold it; sleepers are woken one at a time.
- **Elements that move.** Sorts relocate objects between two arrays, sequences move them out of
  and into their own storage: an object must never be lost, doubled or read where it is not.
- **Shortcuts.** A saturating 8-bit overlap stands in for a label test; a bitmap is cleared a
  word at a time; pairs are numbered independently offline and online.
- **Boundaries.** Full beams, wrap-around in hash tables, `0.01*N` rounded to 0, cut-offs
  that are exceeded and not reached, a cluster bound tested after the visit, blocks and buckets
  without an element, pivots that are equal.

There are no crashes, messages or time-outs in this system: nothing is resumed after a
failure, the programs run to their end or are started again.

`PROJECT.json` lists the hazards line by line, with the properties that cover each.

## The modules

| module | models | abstract or reference specification |
|---|---|---|
| `PQueue` | `new_pqueue_t` as operators on a record (`slot`, `size`, `next_idx`, `next_idx2`) | |
| `PQueueSpec` | a client that pushes and expands in any order | `Beam` |
| `HashFilter` | `hash_filter` | |
| `GraphSearch` | the single-label case of `run_hybrid_query` | `PQueueSpec` |
| `HybridBuild` | `build_hybrid_graph` | `BuildReference` |
| `BuildReference` | `HybridBuild` with two history variables: the lists a batch started from and each task run alone on them | |
| `QueryDispatch` | `build_multifilter_index` and the other four cases of a query | `Matching`, `Visited` in the module |
| `KMeans` | `kmeans_cluster` and the posting lists | `Mean`, `Assigned` in the module |
| `LabelTables` | loading, `transpose`, `hash_subgroup`, the operations on rows | sets |
| `VertexSets` | `VertexSet`: buffers, operations, views | `val`, the sets themselves |
| `CSRGraph` | `GraphT` in memory, `symmetrize` by threads, `orientation`, prefix sums | `want`, the set of edges |
| `OldPQueue` | `pqueue_t` | what was pushed and visited |
| `WorkStealingDeque` | the deque, an atomic access at a time | |
| `Scheduler` | `parallel_for` over it: fork, join, steal, sleep, wake, shut down | `ParallelFor` |
| `HazptrStack` | `hazptr_stack` and `acquire_retire`, an atomic access at a time | `StackSpec` |
| `BlockAllocator` | `block_allocator`, over an atomic stack | where each block is |
| `ThreadIds` | `thread_id_pool` | |
| `PoolAllocator` | `pool_allocator`, `p_malloc`, `p_free` | |
| `ParlayArrays` | arrays with empty and overwritten cells, shared by the next | |
| `ParlaySorts`, `ParlayIntegerSorts`, `ParlaySampleSort` | the sorts, merging, binary search, transposition | stable sorting |
| `ParlaySequenceOps`, `ParlayDelayed` | reduce, scan, pack, filter, split by blocks; views read block by block | one pass over the elements |
| `ParlayPrimitives`, `ParlayGrouping` | `primitives.h`; `collect_reduce`, `group_by`, `kth_smallest` | their definitions |
| `ParlaySequence` | `parlay::sequence` in both representations | `val`, the sequence it should be |
| `PhaseHashTable` | `parlay::hashtable`, an access at a time | `total`, the keys that should be there |
| `LeastNumber` | the least-number principle, counting up, loops, powers of two and logarithms, for all proofs | |
| `PQueueProofs`, `GraphSearchProofs`, `HybridBuildProofs`, `SchedulerProofs`, `HazptrProofs` | theorems about the modules they are named after | |
| `TablesProofs`, `MemoryProofs` | theorems about `QueryDispatch`, `KMeans` and `LabelTables`, and about `ThreadIds`, `BlockAllocator`, `PoolAllocator` and `ParlaySequence` | |
| `MC...` | instances for TLC | |

`GraphSearch` and `HybridBuild` both extend `PQueue` and `HashFilter`: the queue and the
filter are modelled once and run inside both searches. `GraphSearch` also refines `PQueueSpec`.
`Scheduler` instantiates `WorkStealingDeque` and refines `ParallelFor`, the promise under which
`HybridBuild` and `KMeans` let their tasks run in any order and then join. `BlockAllocator` uses
the stack as `StackSpec` describes it, which `HazptrStack` refines. `ParlayGrouping` extends the
other modules about algorithms, which call each other as the code does.

`MCTables`, `MCParlayMemory` and `MCParlay` put components of one kind side by side in a run: a
behaviour chooses one with `which` and the others rest.
The algorithms of ParlayLib are operators; in `MCParlay` a step makes a sequence, and what is
claimed of the algorithms is an action property: it holds of the sequence that the step made
(stated as invariants, TLC's statistics would expand each of these nested operators at each use).

**State and actions against the code.**

- `PQueue`: `lower_bound`, the duplicate test, the shift and the cursor repair of `push` are
  `Push`/`InsertAt`; the forward scan of `set_front_expanded` is `SetFrontExpanded`. `PQueueSpec`
  adds the history variables `pushed` and `opened`.
- `GraphSearch`: the loop of `run_query.cpp` is cut at its phases: `Seed`, `PopFront` (read the
  front, then mark it), `Gather` once per neighbour (visited test and add), `Offer` once per
  new vertex (cut-off, tail test, push), `Report`. Vectors of the group are positions, as in
  the code; `Pos` is `hash_subgroup::pos`, whose table is checked in `LabelTables`.
- `HybridBuild`: each vector is a task with its own program counter, beam and filter.
  `StartLabel` is a turn of the loop over labels, `Expand` is `add_edge` and
  `set_front_expanded`, `ReadSingle` and `ReadSharedAndOffer` the two loops over the lists,
  `EndLabel` and `EndTask` the prunings. `JoinTasks` is the barrier, `Reverse` one turn of the
  sequential loop, `PruneOneShared` and `PruneOneSingle` one list of the parallel prunings,
  `Assemble` the fixed-degree arrays. A position in a group is written as the vector at it.
- `QueryDispatch`: `SetBits`, `Intersect`, `ClearBits` are the offline loops; `AskOne` and
  `AskTwo` order the labels and choose the case; `Step` considers one vector, `NextCluster`
  visits one cluster.
- `KMeans`: `Assign` is one point of one thread, `Reduce` the rest of the iteration.
- `LabelTables`: `LoadRows` is the sorting in the constructor; `Count`, `PrefixSum`, `PlaceRow` are the passes of
  `transpose`; `StartTable` and `Insert` construct the position tables, `PosIn` looks a vector up.
- `VertexSets`: `mem` is the memory of the pool's buffers and `avail` the list of free ones; an
  operation reads what was last written, also when it writes where it reads.
- `CSRGraph`: a step of `symmetrize` is one `fetch_and_add` or one edge of a thread; the two
  parallel passes share `degrees` and `offsets`.
- `Scheduler`: `stack[w]` is the call stack of worker `w`; an action moves the innermost call from
  one atomic access to the next. `parfor_` is `ForRun` and `Fork`, `pardo` is `Fork` to `Join`,
  `get_job` and `try_steal` are `SeekOwn` and `TrySteal`, the elastic part `TimeOut`, `GoToSleep`,
  `WakeUp`, `WakeOneWorker`, `NotifyOne`, the destructor `Shutdown` to `JoinThreads`.
- `HazptrStack`: `Load`, `Announce`, `Validate` are `acquire`; `Link` and `PushCas` the push,
  `Follow` and `PopCas` the pop; `Retire`, `Scan`, `Collect` are the reclamation.
- `PhaseHashTable`: `LookForPlace` and `PutInPlace` are a turn of the insertion's loop, its read
  and its swap; `Peek`, `Back`, `LookAhead`, `LookBehind`, `SwapIn` are the deletion.
- The modules about algorithms are operators: each follows the recursion, the blocks and the
  writes of its function. A cell written twice becomes `Lost` and one never written stays `Raw`,
  so that the disjointness of parallel writes is checked and their order can be left out.
- `ParlaySequence`: member functions act on a memory of buffers, cells and living objects.

Some modules contain an operator whose comment starts with "Mutant": the form a plausible
bug would give to the operator after it. They are used by no specification; replacing the
operator by the mutant must violate the property that `PROJECT.json` pairs it with.

## The runs

| run | states | what it shows |
|---|---|---|
| `search_exact` | 14,919 | Visited set with a slot for each vector, ties: the search ends at a local optimum, reports the nearest it computed a distance for, has no vector twice in the beam, drives the queue as `PQueueSpec` says. |
| `search_lossy` | 28,998 | Visited set in which positions evict each other, ties: the search still ends, at a local optimum. |
| `build_overlaps` | 281,094 | Two concurrent insertions, any label sets: searches stay among the label's vectors; the only racing reads are of a label's first vector and add nothing; reversal walks forward edges only; degrees are bounded. |
| `build_three` | 6,760 | Three concurrent insertions, ties, a filter of two slots, first vectors that are being inserted: each task ends with the lists it would have built alone, and the build ends. |
| `build_small` | violated | With fewer than 100 vectors the build does not end (finding 3). |
| `tables` | 202,056 | Seven components, each from all its inputs. *beam*: the documented cursor invariant and the order hold, with equal distances too; while no two candidates pushed are equally far the queue holds exactly the `L` nearest ever pushed, each with its flag, and every step is one of `Beam`. *dispatch*: rows computed in advance are the intersections whatever the two cut-offs; answers carry all labels, in order and once, and are exact, in an inverted file exact among the clusters visited. *kmeans*: an iteration of two threads is a sequential round; lists hold their nearest points when the loop settled. *labels*: slices are the labels' vectors; tables with collisions and wrap-around find every position and no stranger; merging and searching rows act as on sets. *sets*: what is computed in place, in views and in reused buffers is the set. *graph*: arrays symmetrized by threads or oriented are the graph. *oldqueue*: it holds the nearest pushed, its cursor stands at the first not visited. |
| `queue_ties_duplicate` | violated | With equal distances a candidate can be queued twice (finding 1). |
| `queue_reuse` | violated | After `clear` the cursor invariant does not hold (finding 2). |
| `scheduler` | 203,573 | Every index is run exactly once before `parallel_for` returns; the job taken back is one's own; no job outlives the call it lives on; all workers end. |
| `parlay_memory` | 953,106 | No node is read after it was deleted and the stack is linearizable; no block is lost or given out twice; ids are unique and dense; buffers fit and return to a pool of their size. |
| `parlay` | 186,369 | All sequences of up to six elements with three keys: sorts sort (stably where they should), blocks act as one pass, the primitives and groupings compute what their definitions in the modules say, equal keys included. Every history of two sequences; every interleaving of a phase of the hash table. |
| `remove_duplicates` | violated | `remove_duplicate_integers` returns integers that do not occur (finding 4). |

`CHECK_DEADLOCK FALSE` stands where a modelled program ends, or, in the runs of several components,
where one of them does. `scheduler` and `parlay_memory` check for deadlock: the scheduler ends in
a state that only repeats itself, and anything else that stops would be reported.

### Bounds, and why they are enough

- *Queue*: seven candidates, of which two pairs are equally far, `L = 3`, so that behaviours with
  and without ties occur. A full queue, evictions, re-pushes of evicted candidates and
  inserts before, between, at and behind both cursors all occur; the theorems cover every size.
- *Search*: a group of 5 of 6 vectors (one vector of the shared graph is a stranger), beam 3, any
  single graph from three neighbour pairs; and a group of 10 whose 8-slot filter makes 0 and 8, 1
  and 9 collide, graphs varying on these four. Weights of the cut-off (1.35) are exact integers.
- *Build*: 5 vectors in an order that is not their own, batches of 1, 2 and 1; label 1 on all,
  labels 2 and 3 on any two sets. With `OverlapMax = 2` the saturation at 255 is reached with three
  labels. `build_three` uses 7 vectors with batches of 1, 2 and 3. `D = SharedD = 1` (2 in
  `build_three`) so that reversal overfills lists. `BatchDiv = 1` lets batches double, as
  they do in the code up to 1% of the data; `build_small` uses the code's 100.
- *Dispatch*: five vectors, two at the same distance, `K = 2`, offline and online cut-offs (1,2),
  (2,1), (0,0), so that rows are empty, short, just too large, and usable or not online; words of
  two bits, so that a word holds vectors of different labels; `NUM_CLUSTERS` 0 and 2 of 3.
- *K-means*: chunks of three and two points; every data set up to value 4 whose first point is 4
  (the value only matters relative to the others); `MaxIter = 4` is reached by some data.
- *Label tables*: 16 vectors, the label under test on any one to three of them, tables of 4 or 8
  slots; `LinearMax = 1` stands for the 32 below which rows are scanned linearly.
- *Sets*: three sets over two overlapping rows; both search methods on either side of their limit.
- *Graph*: every directed and undirected graph of three vertices, two threads, blocks of two.
- *Scheduler*: three workers, so that two thieves meet at one deque while its owner pops; a loop of
  five indices, so that a deque is filled, emptied and filled again; granularity measured (one
  or three indices), given, and the whole loop. A deque of 5 jobs: the code's 1000 is asserted,
  not handled.
- *Memory*: two threads and three nodes, one node reused while another thread holds its address; a
  collection after every retirement (30 in the code). Lists of two blocks, three threads that take
  each other's place as stolen tasks do. Three threads that come and go for the ids. Buffer
  sizes at, below and above pools and above the largest.
- *Parlay's algorithms*: thresholds of one to five elements, so that each level of a recursion, the
  block version and the sequential one are all taken within six elements; three keys, so that
  pivots, buckets and whole inputs are equal. Hash and random bits are fixed arbitrary functions.
- *Sequence*: two sequences of at most three elements, inline up to two or not at all; five buffers, one
  more than there are objects with the two temporaries.
- *Hash table*: seven cells, up to three keys with five hash functions, all keys at the end of the
  array among them; two threads.

### Fairness

Most components claim safety only and assume none. A query in `GraphSearch` is one thread running
a loop: `WF_vars(Next)`. In `HybridBuild` the assumption is also `WF_vars(Next)`: the pool keeps
*some* thread running while one can. This is weaker than fairness for each task and enough, because
a batch waits for all its tasks and tasks never wait for each other. `ReferenceSpec` states the same of
the same steps, which its history variables only accompany. In `Scheduler` it is weak
fairness of each worker's steps and of the main thread's: the operating system runs every
thread that can run. Per-worker fairness is needed because a worker that looks for work is
always able to take another step, and without it could keep the rest from theirs.

## The proofs

All theorems are about every value of the constants: every width, every set of candidates and
distances, every data set and graph, every number of tasks, workers, threads and nodes, every schedule.

Each component's proof has the same shape: an inductive invariant with named parts, that the
initial states have it, one lemma per action that the action keeps it, and then each property
from it. TLC checked the invariants it can evaluate before they were proved; those of the memory
management speak of witnesses. `LeastNumber` proves that a set of
naturals with a member has a least one, and from it two forms of counting up without an operator
parameter (`CountUp`, `CountUpTo`), in which a loop is unrolled or a recursive function evaluated; and
that a function defined by a loop exists (`LoopExists`), before which nothing can be said of its values.

**Queue** (`PQueueProofs`). The invariant `QueueInv` joins the type invariant, `CursorsAtTwoNearestOpen`
and `SortedByDistance`. They are proved together because none is inductive alone: that the position
`lower_bound` returns is where the order survives needs the order, that the shift stays in the
arrays needs the sizes, and the repair of the second cursor is right only if the first was
right before. `PushCases` reduces `push` to "unchanged, or insert at the lower bound";
`InsertFields` and `ExpandFields` say what the two operations do field by field. Exactness needs two
more parts about the history: `HistoryInv` (a flag is set only for an opened candidate, what is open was
pushed) and `BeamInv` (while no two candidates pushed are equally far, no candidate is queued twice, the
queue is `Nearest(pushed)`, and flags are what was opened since). Results:

- `QueueTypeCorrect`: cursors stay within the queue, entries are candidates.
- `CursorsCorrect`: the invariant the code documents holds always.
- `OrderCorrect`: entries are sorted, each with its own distance.
- `NoDuplicatesWhenDistinct`: if no two distances are equal, no candidate is queued twice. The
  assumption is needed: `queue_ties_duplicate` is the counterexample without it.
- `NearestKept`: `HoldsTheNearest` holds always: as long as the candidates pushed so far are at distinct
  distances, the queue holds the `L` nearest of them and nothing else.
- `BeamImplemented`: as long as they are, every step is a step of `Beam` or a stutter, an eviction and a
  refusal included; `BeamImplementedWhenDistinct` concludes `Beam`'s specification.

**Search** (`GraphSearchProofs`). `SearchInv` has five parts: `LoopInv` (types of the loop's state, and
what each phase knows), `FilterInv` (a visited identifier was offered or is kept to be
offered: a forgetful set never claims what it has not seen), `FrontierInv` (every
neighbour of an expanded vertex was offered, is kept, or is still to be looked at), `SettledInv`
(an offered vertex is in the beam, or no nearer than the tail of a full beam, or beyond the
cut-off), and the queue's `QueueInv`. `SettledInv` needs the queue's order: an eviction unsettles
nothing because what is evicted is no nearer than the new tail (`PushSettles`). `FrontierInv` needs
`FilterInv`: skipping a visited vertex is harmless only because it was really offered. Results:

- `LocalOptimum`: when a query ends, no expanded vertex has a neighbour that should still be in
  the beam, however lossy the visited set is.
- `SearchUsesBeam`: the search implements `PQueueSpec`, so the theorems about the queue hold in it.
- `NearestReported`: results come nearest first and no vector whose distance was computed is
  strictly nearer than the last one reported, if the beam holds `K` entries.
- `NoVectorTwice`: with distinct distances no vector takes two places of the beam;
  `NoVectorTwiceWhenExact`: with a slot for each vector in the visited set none does, whatever
  the distances (a vector is offered once, because what was offered is visited for ever).
  `NoVectorTwiceInLargeBeams`: there are so many slots if `L * L` is no less than the group (`CapacityAbove`:
  the power of two that the filter takes is above the number it was made for).

**Other queries** (`TablesProofs`). `InOrder`, the enumeration of a set in an order, is characterised
first (`InOrderFacts`, `InOrderUnique`): rows, the list of big labels and the order of the clusters are
instances of it, and a filtered scan of an ascending row is the ascending row of the intersection
(`OnlyAscending`). `DispatchInv` has five parts. `OfflineInv`: the bitmap is the current label's group, and
empty between labels; there are as many rows as pairs done (`RowsInv`), each at the place `Pos` computes
for its pair by counting. `SearchInv`: what is still to be scanned is distinct vectors of the answer, and
the list is `BestOf` those reached and scanned, that is sorted, with sentinels last, and missing only
vectors no nearer than its last entry. `ClusterInv`: the clusters still to come are the rest of the order.
`DataInv` and `QueryInv` are types. `RowsInv` must be in the invariant because online a row is found only by
counting pairs; `BestOf` must be relative to what was reached because a list that is not full says
nothing about vectors not yet scanned. `ConsiderKeepsBest` is the step of a scan. Results:

- `RowsHold`: every row looked up is the whole intersection of its two labels or says it is too large,
  and there is one for each of the `n (n - 1) / 2` pairs.
- `AnswersMatchAlways`, `AnswersExactAlways`: answers carry all labels, once, in order; they are exact among the
  eligible vectors, which in an inverted file are those of the nearest clusters it may visit
  (`ReachedIsEligible`).
- `DispatchTypeCorrect`: the type invariant.

**Clustering** (`TablesProofs`). `PartialsInv` gives the arrays of a thread as a difference: what a
thread has summed up, together with what the threads before it will have, is the sum up to the point it
is at. So the sum over the threads telescopes to the sum over all points when all chunks are passed,
which needs that chunks of lengths `NumPoints \div NumThreads` and one more are laid end to end
(`ChunkStart`, `ChunkEnd`). `PassedInv` says that the points passed are in the nearest clusters, and
`SettledInv` that while an iteration has moved no point the centroids are the means of the
clusters as they are: an iteration that moves none therefore leaves the centroids where they were,
and its assignment is that of the final centroids. The first iteration is excluded because its
centroids are points and not means (see the findings). Results:

- `RoundsSequential`: an iteration is a round of the sequential algorithm, for any team.
- `ListsNearest`: a clustering that ended by itself leaves each point in the list of a nearest centroid.
- `KMeansTypeCorrect`: the type invariant, threads within their chunks.

**Label tables** (`TablesProofs`). A sorted row is characterised once (`SortedFacts`, `SortedIs`: a member stands
where the number of smaller members says), and the offsets are counted on the ones of the matrix (`StartOf(f)`:
those of labels before `f`), which the recursive row starts of the file add up to (`NnzIs`; that the recursion
has a value is `LoopExists`). `TablesInv` says for each pass what the offsets count (`IndptrInv`: in the
backward pass the start of the slice plus the carriers still to come, so that a place is taken once,
`SlotsApart`), which places are filled (`IndicesInv`), and of each table (`HashInv`, `Holds`): every position inserted
so far is in one slot, and no slot between its vector's first slot and its own is free. A table has more
slots than vectors (`LgFacts`), so a probe meets a free one (`ProbesReach`). The merge and the halving search
are recursions; the intended results solve them, and nothing else does, since each call leaves less of the rows
(`MergedCounts`, `ContainsFinds`). Results:

- `PositionsAlwaysFound`: `transpose` gives the sorted vectors of each label, and `pos` their positions or -1.
- `RowsAlwaysActAsSets`: overlaps are counted and labels found as on sets.

**Construction** (`HybridBuildProofs`). The loops over edge lists are recursive functions local to their
operators; the first part of the module shows that these functions exist and what they return for
lists of any length (pruning returns a sub-list within the degree, a sort permutes, an overlap equals
a number of labels only if all are shared). `BuildInv` says where the lists may lead in each phase: to
carriers of the label, to vectors inserted earlier, and, for the lists of the batch being inserted,
not yet to each other; which beams and filters a task may have; and which lists may be over their
degree (only those that reversal has grown and no pruning has reached). Results:

- `SearchesStayInGroup`: a search for a label never leaves its carriers, so the full-overlap shortcut is sound.
- `BuildRacesAreBenign`: a list another task is writing is read only at a label's first vector, and
  nothing that may be seen there passes.
- `OnlyForwardEdgesReversed`: the reverse loop never appends to the list it walks, nor reverses an edge twice.
- `ListsWithinDegree`: the degree assertions before the arrays are filled hold.
- `InsertionsAsIfAlone`: a task ends with the lists it would have built alone. `ReferenceInv` keeps a
  task in lockstep with `lone`, the same task run on `base`, the lists its batch started from
  (`AsAlone`), in four steps of reasoning: lists of vectors of earlier batches are constant while a batch
  inserts (`SettledLists`); a label's first vector, whose list may be growing, has nothing that passes
  for the label, neither in the list nor in `base` (`NotYetLinked`, from `BuildRacesAreBenign`); the
  full-overlap shortcut and the lookup of labels agree (`PassesCarriers`, from `SearchesStayInGroup`); and
  nobody else writes a task's own lists (`OthersAsAlone`).

**Scheduler** (`SchedulerProofs`). `SchedulerInv` follows a job from the call that forks it: calls
are addressed by worker and depth from the bottom of the worker's stack, which pushes and returns above
do not change. `StackInv` (what a call knows at each program point), `DequeInv` (a deque holds its owner's
outstanding forks, oldest first, at most one of them being taken), `MatchInv` (every fork not yet joined is in a deque,
in the hands of one worker, or done), `OwnInv` (the job taken back is the one just forked), `JobInv` (a job's call is
still on its stack, waiting), `ShareInv` and `RanInv` (the indices of all calls and jobs partition the range,
those already run apart), `RegInv` (what a thief has read of a deque, and that an age with an old tag fails
its swap). They are proved together: that a call waits for its job needs that nobody else finishes it,
which needs that a deque gives a job away once. Results:

- `OwnJobHolds`: the job a `pardo` takes back is its own.
- `JobsOutlived`: no job outlives the call whose stack frame it lives in.
- `LoopImplemented`: `Scheduler` implements `ParallelFor`: every index is run exactly once, and all of them before the
  loop returns.

**Lock-free stack** (`HazptrProofs`). The invariant says that there are witnesses: a height and an array of the stack's nodes
from the bottom, and for each thread the set of nodes it has retired and not deleted. `StackShape` (the links follow
the array, a length is a depth), `HeldShape` (a node a thread builds or has popped is its own), `GarbageShape` (retired
nodes are in no stack and in one thread's list), `GuardShape` (a validated announcement keeps its node from
being deleted), `CasShape` (if the head is still the node a pop announced, its successor is still what the pop
read: the case that recycled nodes would break). The witnesses for the next state are given action by action,
and `StepOfStack` says which of four things happens to the abstract stack. Results:

- `NodesOutlived`: no node is read after it was deleted.
- `LengthHolds`: a node's length is its depth. `StackAlwaysSafe`: both, the property of the run.
- `StackImplemented`: `HazptrStack` implements `StackSpec`; a pop takes effect at its swap, or where it read an empty head.

**Thread ids** (`MemoryProofs`). Taking an id is guarded by a mutex, giving one back is not. The witness is the
list that `available` leads to. `MutexInv` and `ReadInv` say that the one thread past the lock still knows
the next of the id it read: nobody else takes ids, and only the thread that holds an id writes its next. So
the list may grow in front of a taker but never shrink, and the swap cannot succeed with a stale
next. Result: `IdsStayUniqueAndDense`.

**Blocks** (`MemoryProofs`). `BlockInv` says that there are witnesses: of each block its `place` (a list, with
a caller, or not yet cut from a buffer) and its `rank`, the number of blocks below it in its list. `Layout`
is what the allocator's links and counters mean in these terms: the next of a block is the one of the rank below,
no two blocks of a list have one rank, a list's first block has the rank of its length. `Mids` says that
the block remembered by a list of more than `L + 1` blocks has exactly `L` below it, so that what `free` gives
to the stack is a whole list. Each operation is one of four changes of a layout (`PopLayout`,
`PushLayout`, `MoveLayout` for a list that changes hands, `SplitLayout`) or a new buffer (`CutLayout`). Lists
being brought back by `get_list` have a place of their own, so it does not matter which thread uses one.
`clear` needs arithmetic: when the number of used blocks is 0, the lengths of the lists add up to all blocks
(`ThreadsCount`, `StackCount`), hence none is out (`NoneUsed`). Results:

- `BlockInvHolds`: the invariant, and `Walked`: following a list's links meets its blocks and stops.
- `BlocksStayAccounted`: no block is lost or in two places; every list on the stack has `L` blocks.

**Buffers** (`MemoryProofs`). A buffer is put back by a number that is not the one it was obtained for: `p_free`
knows only the logarithm of the size, rounded up. `PoolInv` therefore says of a buffer in use which
pool that number (`FreedAs`) names, and that the buffer is large enough for it; of a waiting one that it is
large enough for the pool it is in. The step rests on three lemmas about the operators: pool sizes being consecutive
powers of two, a size and the power above it select the same pool (`SameBucket`), a padding is at least a header
and a multiple of one (`PaddingFacts`), and aligning past the header skips no more than the padding that was
asked for in addition (`StartFacts`, which the assertion after `std::align` claims). That the powers and logarithms
exist is proved in `LeastNumber` (`PowersExist`, `LogarithmExists`). Results:

- `PoolInvHolds`: the invariant.
- `BuffersAlwaysFit`: header and object lie inside the buffer, and a pool's buffers are of its size.

**Sequences** (`MemoryProofs`). The member functions compose a few steps on memory, and each is
shown to turn a memory that keeps some values into one that keeps others, with all other objects
untouched. `Holds` says what an object with value `q` looks like: `q` and then raw cells (`Pad`),
inside the object if it is short, in a buffer of its own otherwise. `Keeps` says so of all objects,
the temporaries of `insert` and `append` included, and that a buffer is released or has one owner;
`Sound` adds that as many elements are alive as the values are long. Both are needed at once: a
function leaves the sequence in several pieces (the front in place, the tail moved out, a buffer
given back and not yet replaced) and only the sum over all objects is constant. `Rests` is the
invariant between operations: nothing is in a temporary, so no buffer stays with one. The steps of
`insert` are followed by `InHand`, the front and the tail as two objects. `compare_equal` compares
blocks that double: at the least position where two sequences differ some block finds the
difference, by the least-number principle (`EqualFacts`). Result:

- `SequencesActAsSequences`: for any number of sequences, any values, lengths and inline capacity, 0 included, each
  holds the sequence it should, nothing leaks and nothing is destroyed or freed twice, and `==` is equality.

**Assumptions**, all declared by name and evaluated by TLC in the runs: `LAssumption` (`L` positive),
`DistAssumption`, `KAssumption` (`0 < K <= L`), `GroupAssumption` (a group is a finite row of
distinct vectors that contains its first vector), `GraphAssumption` (edges of a label's
graph lead to positions of the group: what `SearchesStayInGroup` proves of the builder),
`BuildAssumption` (typing of the builder's constants),
`LabelTablesAssumption` (a vector and a label at least, no label twice in a row of the file), `DispatchAssumption` (finite sets of labels and clusters, distances below the sentinel's 2e9),
`KMeansAssumption` (there are points, threads and iterations, clusters are not of size 0, and data are unsigned),
`SchedulerAssumption` and `DequesAssumption` (a worker at least, a range, positive granularities, deques
that do not overflow, which the code asserts), `HazptrAssumption` (finitely many
nodes, threads are numbers), `IdsAssumption` (`None` is neither an id nor a thread; `MaxIds` bounds the ids TLC hands out),
`BlockAssumption` (`Nil` is no block, and lists have at least two blocks: with one, the lengths at which `free`
remembers a block and gives a list away would be the same), `SequenceConstants` (a hypothesis of the theorem about
sequences, evaluated by `BuffersSuffice` in the run: allocation never fails, so there are more buffers than
objects; the granularity of `compare_equal` is positive, which `1024 * sizeof(size_t) / sizeof(value_type)` is for
elements of at most 8 KiB; with larger ones, which nobody here compares, its blocks would be empty for ever), and
`PoolAssumption` (pool sizes are powers of two, each twice the one before, alignments are powers of two, a size
and an alignment are below half of what a `size_t` holds, and the system aligns buffers to a multiple of the header's size).

**Only model-checked**: all liveness (`Terminates` twice, `ShutsDown`), which is beyond the prover; the
vertex sets, the general graph, the older queue and the hash table; and ParlayLib's algorithms: what a
fold or a `RECURSIVE` operator computes for every input is induction over data with an operator
parameter, which the installed provers cannot instantiate.

## Findings

1. `pqueue.hpp:286`: the test marked "duplicate" looks only at the first position of a distance; a
   candidate behind another one at the same distance is inserted again. The searches are
   exposed to it only where the visited set has forgotten the vector.
2. `pqueue.hpp:268`: `clear` leaves `next_idx2`, against the invariant documented at line 232. No
   search of the repository reuses a queue.
3. `build_hybrid_graph.hpp:66`: the batch bound `0.01*N` is 0 below 100 vectors and the build
   repeats an empty batch for ever.
4. `group_by.h:279`: `update` sets the flag whatever value it is given, and `collect_reduce_few` also
   calls it to combine the flags of blocks; with more than one block `remove_duplicate_integers`
   returns integers that do not occur in its argument.

Observed while modelling, shown by no run:

- `primitives.h:1221` says that the rank of an element "is the number of elements in the range that
  compare less than it". `rank` (lines 1228-1234) returns the place in the stable order: the two differ at
  every element that has an equal one before it. `PrimitivesAreRight` checks what is returned, the documented
  number plus that of the equal elements before.
- `flatten.h:204`: when a block-iterable range is flattened, an input block after the start of the last
  output block reads `out_block_offsets` past its end, before any bound is tested: with blocks of two,
  inner lengths 1, 0, 0 are enough. A value at or after the block is harmless, since the loop that
  follows tests the bound; one before it has `std::advance` go backwards on an iterator that only goes
  forwards. `FlattenStartsByBlock` takes the value read as a parameter and `BlocksActAsOnePass` is checked with
  every value of the first kind; after one of the second nothing is said.
- `primitives.h:635` and `:705`: `adjacent_find` of an empty range and `find_end` of a pattern longer by
  two or more compute a size that wraps around, and search outside of their range. These calls are left
  out of `PrimitivesAreRight`; all its other operations are checked on empty sequences too.
- A vector can be left without an edge usable for a label, when the shared edge that made the label's
  own edge redundant is pruned later; the same neighbour can be in a shared list several times while the
  list is under its degree.
- k-means takes a first iteration that assigns every point to cluster 0 for a settled one (data 0, 0, 0,
  2, 3) although it has just moved the centroid: `ListsHoldNearest` excludes such a loop, and so does not
  show this.
- `VertexSet::duplicate` makes two sets own one buffer, which the pool then hands out twice; `push_back`
  of an element of a `parlay::sequence` into itself reads it after the buffer moved.

## Abstractions

- Distances are given as data; vector arithmetic and its types are left out, except in `KMeans`,
  where points have one `uint8` coordinate and means are truncated.
- A racing read of a list (`ReadSharedAndOffer`) sees any prefix of it. A read after a concurrent
  reallocation touches freed memory; no outcome of that is modelled. What is
  shown is that such reads happen only at a label's first vector and that no value they can
  legally return matters.
- `HybridBuild` takes the degrees of the labels' graphs as any function `D` of the label; `build_hybrid_graph.hpp:55-63`
  derives it from the sizes of the groups.
- `QueryDispatch` has one `BIG_CUTOFF` for the offline and the online program, which must be given alike for the
  rows to be found (`run_query.cpp:97`); that they are is not checked.
- Each task may run at any time within its batch: OpenMP's and Parlay's schedules are some of these.
- Queries are modelled one at a time, since concurrent ones write disjoint results and share only
  read-only data.
- `0.01*N` is `N \div BatchDiv`; `ALPHA` and 1.35 are fractions of integers.
- The inverted file of `QueryDispatch` holds an arbitrary clustering; `KMeans` says which one is built.
- A scan of a row is one action where it only reads immutable data (`Intersect`).
- Atomic accesses are sequentially consistent in `Scheduler`, `HazptrStack`, `ThreadIds` and
  `PhaseHashTable`. Weaker orderings that the code asks for in places are not modelled.
- `BlockAllocator` is split only at its accesses to the global stack; the rest is a thread's own.
- Time is left out of the scheduler: a search for work may time out whenever it has found nothing,
  and the measured granularity is any of the values in `Measured`.
- Reads of cells that were never written (`sample_sort.h`'s empty blocks) give `Raw`, which no result
  may contain.

## Not modelled

- File formats, parameters, timers, logs; the recall statistics; the generators and converters:
  input, output and wording. Vector arithmetic (`distance.hpp`).
- `get_groundtruth`: a sequential exhaustive scan, whose step is `Consider` of `QueryDispatch`.
- `VertexSet::duplicate` and moves of pooled sets (see above); `pqueue_t`'s `split_queue` and
  `merge_queues`, which no program calls and which use "not found" as an index; `GraphT`'s files.
- `sorted_near`, `sorted_near_filter` and the files of the inverted lists.
- Of ParlayLib: character input and output, iterator adapters, compiler traits, random bits, the
  other operations of `block_delayed.h`, the plug-ins for other schedulers.
- A k-means team that changes its size between two parallel regions.

## What could come next

Theorems: for `OldPQueue`, what `PQueueProofs` shows of the newer queue; for `PhaseHashTable`, what `Holds` says of the position tables, with two writers.
