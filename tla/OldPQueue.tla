------------------------------ MODULE OldPQueue ------------------------------
(***************************************************************************)
(* pqueue_t of src/pqueue.hpp, the queue that new_pqueue_t replaced: one   *)
(* cursor, single pushes and pushes of a sorted batch.  The three arrays   *)
(* are one sequence of entries, of those in use.  Candidates are numbered  *)
(* by their distance, all different.                                       *)
(***************************************************************************)
EXTENDS Integers, SequencesExt

CONSTANTS L,                    \* queue_capacity
          Candidate             \* a set of numbers: vid and distance in one

VARIABLES entry,                \* vid_queue, distances and expanded, up to queue_size
          nextIdx,              \* next_idx, from 0
          pushed, visited       \* since the last clear (not in the code)

oldVars == <<entry, nextIdx, pushed, visited>>

Fresh(c) == [vid |-> c, expanded |-> FALSE]
LowerBound(c) == Cardinality({i \in DOMAIN entry : entry[i].vid < c})
Full == Len(entry) = L

OldInit == entry = <<>> /\ nextIdx = 0 /\ pushed = {} /\ visited = {}

Offered(C) == pushed' = pushed \cup C /\ UNCHANGED visited

PushLeavingCursor(c) ==         \* mutant: the cursor stays behind an entry pushed before it
    LET loc == LowerBound(c) IN
    /\ Offered({c})
    /\ IF loc < Len(entry)
       THEN /\ entry' = IF entry[loc + 1].vid = c THEN entry
                        ELSE InsertAt(IF Full THEN Front(entry) ELSE entry, loc + 1, Fresh(c))
       ELSE entry' = IF Full THEN entry ELSE Append(entry, Fresh(c))
    /\ UNCHANGED nextIdx

Push(c) ==
    LET loc == LowerBound(c) IN
    /\ Offered({c})
    /\ IF loc < Len(entry)
       THEN IF entry[loc + 1].vid = c THEN UNCHANGED <<entry, nextIdx>>         \* duplicate
            ELSE /\ entry' = InsertAt(IF Full THEN Front(entry) ELSE entry, loc + 1, Fresh(c))
                 /\ nextIdx' = IF loc < nextIdx THEN loc ELSE nextIdx
       ELSE /\ entry' = IF Full THEN entry ELSE Append(entry, Fresh(c))
            /\ UNCHANGED nextIdx

RECURSIVE Merged(_, _)          \* the loop of batch_push
Merged(q, ins) ==
    IF q = <<>> THEN [i \in DOMAIN ins |-> Fresh(ins[i])]
    ELSE IF ins = <<>> THEN q
    ELSE IF q[1].vid = ins[1] THEN Merged(q, Tail(ins))
    ELSE IF q[1].vid < ins[1] THEN <<q[1]>> \o Merged(Tail(q), ins)
    ELSE <<Fresh(ins[1])>> \o Merged(q, Tail(ins))

BatchPush(ins) ==
    LET all == Merged(entry, ins) IN
    /\ Len(ins) > 1
    /\ entry' = SubSeq(all, 1, IF Len(all) < L THEN Len(all) ELSE L)
    /\ nextIdx' = 0
    /\ Offered({ins[i] : i \in DOMAIN ins})

\* The client expands the entry at the cursor, or steps over it.
Advance ==
    /\ nextIdx < Len(entry)
    /\ entry' = [entry EXCEPT ![nextIdx + 1].expanded = TRUE]
    /\ visited' = visited \cup {entry[nextIdx + 1].vid}
    /\ nextIdx' = nextIdx + 1
    /\ UNCHANGED pushed

Clear == entry' = <<>> /\ nextIdx' = 0 /\ pushed' = {} /\ visited' = {}

OldNext ==
    \/ \E c \in Candidate : Push(c)
    \/ \E c, d, e \in Candidate : c < d /\ (BatchPush(<<c, d>>) \/ (d < e /\ BatchPush(<<c, d, e>>)))
    \/ Advance \/ Clear

-----------------------------------------------------------------------------
Nearest(S) == {c \in S : Cardinality({d \in S : d < c}) < L}

(* The queue holds the L nearest of all pushed, in order and once each,    *)
(* however single pushes and batches are mixed, and none that is still to  *)
(* be expanded lies before the cursor, where the client would not find it. *)
OldQueueExact ==
    /\ \A i \in 1 .. Len(entry) - 1 : entry[i].vid < entry[i + 1].vid
    /\ {entry[i].vid : i \in DOMAIN entry} = Nearest(pushed)
    /\ \A i \in DOMAIN entry : i <= nextIdx => entry[i].expanded
    /\ \A i \in DOMAIN entry : entry[i].expanded => entry[i].vid \in visited
=============================================================================
