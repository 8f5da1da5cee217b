----------------------------- MODULE PQueueSpec -----------------------------
(***************************************************************************)
(* A client of new_pqueue_t (src/pqueue.hpp) that pushes candidates and    *)
(* expands the front one in any order, as the beam searches of run_query   *)
(* and build_hybrid_graph do.  A candidate always comes with the same      *)
(* distance, its distance to the query point.                              *)
(*                                                                         *)
(* `pushed' and `opened' are history variables: the candidates ever        *)
(* offered, and those ever expanded.                                       *)
(***************************************************************************)
EXTENDS PQueue, FiniteSets

CONSTANTS Vid,      \* candidate identifiers
          DistOf    \* the distance of each of them

ASSUME DistAssumption == DistOf \in [Vid -> Nat]

DistinctDistances == \A v, w \in Vid : DistOf[v] = DistOf[w] => v = w

VARIABLES q, pushed, opened
vars == <<q, pushed, opened>>

Init == /\ q = NewQueue
        /\ pushed = {}
        /\ opened = {}

PushAny == \E v \in Vid : /\ q' = Push(q, v, DistOf[v])
                          /\ pushed' = pushed \cup {v}
                          /\ UNCHANGED opened

\* Both searches call set_front_expanded only after has_unexpanded().
ExpandFront == /\ HasUnexpanded(q)
               /\ q' = SetFrontExpanded(q)
               /\ opened' = opened \cup {q.slot[q.next_idx].vid}
               /\ UNCHANGED pushed

Next == PushAny \/ ExpandFront

Spec == Init /\ [][Next]_vars

\* A client that also reuses the queue through clear(), which no search does.
ClearAll == /\ q' = Clear(q)
            /\ pushed' = {}
            /\ opened' = {}
-----------------------------------------------------------------------------
Entry == [vid : Vid \cup {0}, dist : Nat, expanded : BOOLEAN]

\* Type invariant: the fields stay within the arrays the constructor allocates.
TypeOK == /\ q \in [slot : [Slots -> Entry], size : 0 .. L,
                    next_idx : 0 .. L, next_idx2 : 0 .. L]
          /\ pushed \in SUBSET Vid
          /\ opened \in SUBSET Vid

Open(i) == ~ q.slot[i].expanded

(***************************************************************************)
(* The invariant documented at pqueue.hpp:232-233: next_idx and next_idx2  *)
(* are always the two smallest unexpanded positions, or queue_size when    *)
(* there is no first or no second one.  push moves entries under both      *)
(* cursors and repairs them without looking at the flags again.            *)
(***************************************************************************)
CursorsAtTwoNearestOpen ==
    /\ q.next_idx <= q.next_idx2 /\ q.next_idx2 <= q.size
    /\ \A i \in Live(q) : Open(i) => i \in {q.next_idx, q.next_idx2} \/ q.next_idx2 < i
    /\ q.next_idx < q.size => Open(q.next_idx) /\ q.next_idx < q.next_idx2
    /\ q.next_idx2 < q.size => Open(q.next_idx2)

(***************************************************************************)
(* The entries are sorted by distance, each with its own distance: what    *)
(* lower_bound (pqueue.hpp:283) and the cut-offs of the searches rely on.  *)
(***************************************************************************)
SortedByDistance ==
    /\ \A i, j \in Live(q) : i < j => q.slot[i].dist <= q.slot[j].dist
    /\ \A i \in Live(q) : q.slot[i].vid \in Vid /\ q.slot[i].dist = DistOf[q.slot[i].vid]

(***************************************************************************)
(* A candidate pushed again is dropped ("duplicate", pqueue.hpp:286): no   *)
(* candidate is in the queue twice.  The code looks at one position only,  *)
(* the first at that distance.                                             *)
(***************************************************************************)
NoDuplicateIds ==
    \A i, j \in Live(q) : q.slot[i].vid = q.slot[j].vid => i = j

Nearest(S) == {v \in S : Cardinality({w \in S : DistOf[w] < DistOf[v]}) < L}

\* No two of the candidates pushed are equally far.
DistinctPushed == \A v, w \in pushed : DistOf[v] = DistOf[w] => v = w

(***************************************************************************)
(* The queue is in order, which its bisection relies on, and it is         *)
(* lossless as a beam: as long as no two candidates are equally far it     *)
(* holds exactly the L nearest of all ever pushed, each once, however      *)
(* pushes, duplicates, evictions and re-pushes of evicted candidates were  *)
(* interleaved, and its flags tell exactly which of them have been         *)
(* expanded.  An evicted candidate is never searched from a second time.   *)
(***************************************************************************)
HoldsTheNearest ==
    /\ SortedByDistance
    /\ DistinctPushed =>
          /\ NoDuplicateIds
          /\ {q.slot[i].vid : i \in Live(q)} = Nearest(pushed)
          /\ \A i \in Live(q) : Open(i) <=> q.slot[i].vid \notin opened

-----------------------------------------------------------------------------
B == INSTANCE Beam WITH seen <- pushed, done <- opened

\* As long as no two candidates are equally far, new_pqueue_t implements the abstract beam.
ImplementsBeam == B!Init /\ [][DistinctPushed' => B!Next]_<<pushed, opened>>
=============================================================================
