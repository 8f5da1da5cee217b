--------------------------- MODULE BuildReference ---------------------------
(***************************************************************************)
(* What the insertion of one vector should add to the index: HybridBuild   *)
(* extended by two history variables, which its own steps never read.      *)
(*                                                                         *)
(* `base' is a copy of the edge lists a batch started from.  lone[v] is    *)
(* the state of an insertion of v that runs by itself, one big label after *)
(* the other, one vertex at a time, and reads no list but those of base:   *)
(* LoneStep, a function of that state.  It makes a step whenever the task  *)
(* of v ends one of its own.                                               *)
(***************************************************************************)
EXTENDS HybridBuild

VARIABLES base, lone

refVars == <<vars, base, lone>>

Lists == [shared |-> shared, single |-> single]

LoneStart(v) ==
    [stage |-> "label", left |-> BigOf(v), label |-> 0, beam |-> NewQueue, filter |-> NewFilter(1),
     shared |-> <<>>, single |-> [f \in Labels |-> <<>>]]

ToSearch(v, l) == {f \in l.left : initVertex[f] # v}

StartSearch(v, l) ==
    LET f     == CHOOSE f \in ToSearch(v, l) : \A g \in ToSearch(v, l) : f <= g
        first == initVertex[f]
    IN  [l EXCEPT !.stage = "expand", !.left = {g \in @ : g > f}, !.label = f,
                  !.beam = Push(NewQueue, first, Dist[first][v]),
                  !.filter = Remember(NewFilter(LowerOf(L * L, Cardinality(Group(f)))), first)]

Front(beam) == beam.slot[beam.next_idx]

\* The front of the beam becomes a candidate neighbour of v, in both graphs.
Linked(v, l) ==
    LET u == Front(l.beam).vid
        d == Front(l.beam).dist
    IN  [l EXCEPT !.shared = IF Overlap(v, u) >= MinShared THEN Append(@, <<d, Overlap(v, u), u>>) ELSE @,
                  !.single[l.label] = Append(@, <<d, u>>),
                  !.beam = SetFrontExpanded(@)]

\* Those the label's own graph leads to from u, and then those the shared graph does.
FromSingle(filter, f, u) == Fresh(filter, base.single[f][u], DOMAIN base.single[f][u])
FromShared(filter, f, u) ==
    Fresh(filter, base.shared[u], {k \in DOMAIN base.shared[u] : f \in filters[Target(base.shared[u][k])]})

Followed(v, l, u) ==
    LET one  == FromSingle(l.filter, l.label, u)
        both == FromShared(one.filter, l.label, u)
    IN  [l EXCEPT !.filter = both.filter, !.beam = Offered(@, v, one.new \o both.new)]

\* A list of v in a label's graph leaves out what its shared edges to carriers cover.
PrunedFor(f, l) == PruneTo(l.single[f], D[f], {u \in Ends(l.shared) : f \in filters[u]})

LoneStep(v, l) ==
    CASE l.stage = "label" /\ ToSearch(v, l) # {} -> StartSearch(v, l)
      [] l.stage = "label" /\ ToSearch(v, l) = {} ->
            [l EXCEPT !.stage = "done",
                      !.single = [f \in Labels |-> IF f \in BigOf(v) THEN PrunedFor(f, l) ELSE @[f]]]
      [] l.stage = "expand" /\ HasUnexpanded(l.beam) -> Followed(v, Linked(v, l), Front(l.beam).vid)
      [] l.stage = "expand" /\ ~ HasUnexpanded(l.beam) ->
            [l EXCEPT !.stage = "label", !.shared = PrunedShared(@)]
      [] l.stage = "done" -> l
-----------------------------------------------------------------------------
ReferenceInit == /\ Init
                 /\ base = Lists
                 /\ lone = [v \in V |-> LoneStart(v)]

\* A turn of the search begins with Expand and ends with ReadSharedAndOffer.
BeginsTurn(ins) == Expand(ins) \/ ReadSingle(ins)
EndsTurn(ins) == StartLabel(ins) \/ ReadSharedAndOffer(ins) \/ EndLabel(ins) \/ EndTask(ins)

ReferenceNext ==
    \/ /\ Coordinator
       /\ base' = IF phase' = "insert" THEN Lists ELSE base   \* after NextBatch
       /\ lone' = lone
    \/ \E ins \in V : BeginsTurn(ins) /\ UNCHANGED <<base, lone>>
    \/ \E ins \in V : /\ EndsTurn(ins)
                      /\ base' = base
                      /\ lone' = [lone EXCEPT ![ins] = LoneStep(ins, @)]

ReferenceSpec == ReferenceInit /\ [][ReferenceNext]_refVars /\ WF_refVars(ReferenceNext)
-----------------------------------------------------------------------------
(***************************************************************************)
(* Parallel insertion is deterministic: the task of a vector ends when its *)
(* insertion alone does, with the same list in each graph, however the     *)
(* tasks of the batch interleaved and whatever they read of lists that     *)
(* were being written.                                                     *)
(***************************************************************************)
InsertsAsIfAlone ==
    \A v \in V : phase = "insert" /\ v \in Batch /\ pc[v] = "done" =>
        /\ lone[v].stage = "done"
        /\ shared[v] = lone[v].shared
        /\ \A f \in Labels : single[f][v] = lone[v].single[f]
=============================================================================
