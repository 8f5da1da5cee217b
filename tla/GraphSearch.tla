----------------------------- MODULE GraphSearch -----------------------------
(***************************************************************************)
(* The single-filter graph search of run_hybrid_query (src/run_query.cpp): *)
(* one query with one big label walks the label's own graph `single' and   *)
(* the graph `shared' by all labels, restricted to the label's vectors     *)
(* (the group), with a beam of width L, and reports the first K of it.     *)
(*                                                                         *)
(* Vectors of the group are named by their position in filterst[a], other  *)
(* vectors by their number.  A query is sequential: threads share only the *)
(* immutable index.  History variables: `offered', the positions whose     *)
(* distance was computed; `pushed', those of them put to the beam;         *)
(* `opened', those expanded.                                               *)
(***************************************************************************)
EXTENDS PQueue, HashFilter, Sequences, FiniteSets

CONSTANTS K,            \* number of results
          Row,          \* filterst[a]: the group's vectors, a function on 0 .. size-1
          InitVertex,   \* init_vertex of the group
          DistOf,       \* squared distance of each position to the query
          SingleGraphs, \* the label's graphs considered, [position -> neighbours]
          SharedGraphs  \* the shared graphs considered, [vector -> neighbours]

Local == DOMAIN Row

ASSUME KAssumption == K \in Nat \ {0} /\ K <= L
ASSUME GroupAssumption == /\ Row \in [Local -> Nat]
                          /\ IsFiniteSet(Local) /\ Local = 0 .. Cardinality(Local) - 1
                          /\ \A i, j \in Local : Row[i] = Row[j] => i = j
                          /\ InitVertex \in {Row[i] : i \in Local}
                          /\ DistOf \in [Local -> Nat]
ASSUME GraphAssumption ==
    /\ \A g \in SingleGraphs : g \in [Local -> Seq(Local)]
    /\ \A g \in SharedGraphs : \A i \in Local : g[Row[i]] \in Seq(Nat)

VisitedSize == IF L * L < Cardinality(Local) THEN L * L ELSE Cardinality(Local)

VARIABLES single, shared,  \* the loaded graphs
          pc, q, visited,
          todo,            \* vectors next to the expanded one, still to be looked at
          keep,            \* positions of those that were new
          results,
          offered, pushed, opened

vars == <<single, shared, pc, q, visited, todo, keep, results,
          offered, pushed, opened>>

InGroup(v) == \E i \in Local : Row[i] = v
\* hash_subgroup::pos: -1 if the vector is not in the group.
Pos(v) == IF InGroup(v) THEN CHOOSE i \in Local : Row[i] = v ELSE -1

Start == Pos(InitVertex)

Init == /\ single \in SingleGraphs
        /\ shared \in SharedGraphs
        /\ pc = "seed"
        /\ q = NewQueue
        /\ visited = NewFilter(VisitedSize)
        /\ todo = <<>> /\ keep = <<>> /\ results = <<>>
        /\ offered = {} /\ pushed = {} /\ opened = {}

Seed == /\ pc = "seed"
        /\ q' = Push(q, Start, DistOf[Start])
        /\ visited' = Remember(visited, Start)
        /\ offered' = {Start} /\ pushed' = {Start}
        /\ pc' = "pop"
        /\ UNCHANGED <<single, shared, todo, keep, results, opened>>

\* Mutant: the front is read after set_front_expanded has moved the cursor.
PopFrontMarkedFirst ==
    /\ pc = "pop" /\ HasUnexpanded(q)
    /\ q' = SetFrontExpanded(q)
    /\ LET u == q'.slot[q'.next_idx].vid
       IN  /\ todo' = [k \in DOMAIN single[u] |-> Row[single[u][k]]] \o shared[Row[u]]
           /\ opened' = opened \cup {u}
    /\ keep' = <<>>
    /\ pc' = "gather"
    /\ UNCHANGED <<single, shared, visited, results, offered, pushed>>

PopFront == /\ pc = "pop" /\ HasUnexpanded(q)
            /\ LET u == q.slot[q.next_idx].vid
               IN  /\ todo' = [k \in DOMAIN single[u] |-> Row[single[u][k]]] \o shared[Row[u]]
                   /\ opened' = opened \cup {u}
            /\ q' = SetFrontExpanded(q)
            /\ keep' = <<>>
            /\ pc' = "gather"
            /\ UNCHANGED <<single, shared, visited, results, offered, pushed>>

\* One turn of the two loops over the neighbours; those of `single' all carry the label.
Gather == /\ pc = "gather" /\ todo # <<>>
          /\ LET v == Pos(Head(todo))
             IN  IF ~ InGroup(Head(todo)) \/ Contains(visited, v)
                 THEN UNCHANGED <<visited, keep>>
                 ELSE visited' = Remember(visited, v) /\ keep' = Append(keep, v)
          /\ todo' = Tail(todo)
          /\ UNCHANGED <<single, shared, pc, q, results, offered, pushed, opened>>

GatherDone == /\ pc = "gather" /\ todo = <<>>
              /\ pc' = "offer"
              /\ UNCHANGED <<single, shared, q, visited, todo, keep, results,
                             offered, pushed, opened>>

\* Mutants: the cut-off looks at the front of the beam, not at the K-th result; a
\* candidate as far as the tail is let in.
WorthPushingNearFront(d) ==
    /\ ~ (q.size > K /\ 100 * d > 135 * q.slot[0].dist)
    /\ q.size < L \/ d < TailDist(q)

WorthPushingTies(d) ==
    /\ ~ (q.size > K /\ 100 * d > 135 * q.slot[K].dist)
    /\ q.size < L \/ d <= TailDist(q)

\* The cut-off at 1.35 times the distance behind the results, and the tail of the beam.
WorthPushing(d) ==
    /\ ~ (q.size > K /\ 100 * d > 135 * q.slot[K].dist)
    /\ q.size < L \/ d < TailDist(q)

Offer == /\ pc = "offer" /\ keep # <<>>
         /\ LET v == Head(keep)
            IN  /\ offered' = offered \cup {v}
                /\ IF WorthPushing(DistOf[v])
                   THEN q' = Push(q, v, DistOf[v]) /\ pushed' = pushed \cup {v}
                   ELSE UNCHANGED <<q, pushed>>
         /\ keep' = Tail(keep)
         /\ UNCHANGED <<single, shared, pc, visited, todo, results, opened>>

OfferDone == /\ pc = "offer" /\ keep = <<>>
             /\ pc' = "pop"
             /\ UNCHANGED <<single, shared, q, visited, todo, keep, results,
                             offered, pushed, opened>>

\* Mutant: the results are copied from the second entry on.
ReportFromSecond ==
    /\ pc = "pop" /\ ~ HasUnexpanded(q)
    /\ results' = [i \in 1 .. K |-> Row[q.slot[i].vid]]
    /\ pc' = "done"
    /\ UNCHANGED <<single, shared, q, visited, todo, keep, offered, pushed, opened>>

\* The first K slots are reported whether or not the beam has so many entries.
Report == /\ pc = "pop" /\ ~ HasUnexpanded(q)
          /\ results' = [i \in 1 .. K |-> Row[q.slot[i - 1].vid]]
          /\ pc' = "done"
          /\ UNCHANGED <<single, shared, q, visited, todo, keep, offered, pushed, opened>>

Next == Seed \/ PopFront \/ Gather \/ GatherDone \/ Offer \/ OfferDone \/ Report

\* One thread runs the query to its end.
Spec == Init /\ [][Next]_vars /\ WF_vars(Next)
-----------------------------------------------------------------------------
Queued == {q.slot[i].vid : i \in Live(q)}

\* Everything that may be reached by one edge of the index from a group vertex.
Reached(u) == {single[u][k] : k \in DOMAIN single[u]}
                 \cup {i \in Local : \E k \in DOMAIN shared[Row[u]] : shared[Row[u]][k] = Row[i]}

(***************************************************************************)
(* The search stops at a local optimum of the graph although its visited   *)
(* set forgets: when it has ended, every neighbour of a vertex it expanded *)
(* is in the beam, or the beam is full of no farther ones, or it lies      *)
(* beyond 1.35 times the distance behind the results.                      *)
(***************************************************************************)
Settled(w) == \/ w \in Queued
              \/ q.size = L /\ DistOf[w] >= TailDist(q)
              \/ q.size > K /\ 100 * DistOf[w] > 135 * q.slot[K].dist

EndsAtLocalOptimum ==
    pc = "done" => \A u \in opened : \A w \in Reached(u) : Settled(w)

(***************************************************************************)
(* No computed distance is wasted: when the beam holds K entries, nothing  *)
(* whose distance was computed and that is not reported is strictly nearer *)
(* than a reported vector, and the results come nearest first.             *)
(***************************************************************************)
ReportsNearestOffered ==
    pc = "done" /\ q.size >= K =>
        /\ \A i, j \in 1 .. K : i < j =>
              DistOf[Pos(results[i])] <= DistOf[Pos(results[j])]
        /\ \A w \in offered : \/ \E i \in 1 .. K : results[i] = Row[w]
                              \/ DistOf[w] >= DistOf[Pos(results[K])]

(***************************************************************************)
(* No vector takes two places of the beam, hence of the results, when      *)
(* distances differ or the visited set is large enough to be exact: the    *)
(* queue and the filter each catch what the other lets through.            *)
(***************************************************************************)
NoVectorTwiceInBeam ==
    \A i, j \in Live(q) : q.slot[i].vid = q.slot[j].vid => i = j

(***************************************************************************)
(* A query ends, although a forgotten vertex is offered again and again:   *)
(* the beam only ever gets longer or nearer.                               *)
(***************************************************************************)
Terminates == <>(pc = "done")

(***************************************************************************)
(* The search drives its beam the way PQueueSpec's client does, so that    *)
(* what is proved of the queue holds inside the search.                    *)
(***************************************************************************)
Beam == INSTANCE PQueueSpec WITH Vid <- Local
UsesBeamAsSpecified == Beam!Spec
=============================================================================
