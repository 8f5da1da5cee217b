------------------------------- MODULE PQueue -------------------------------
(***************************************************************************)
(* The beam of the graph searches: class new_pqueue_t of src/pqueue.hpp, a *)
(* bounded list of candidates sorted by distance, each marked expanded or  *)
(* not, with two cursors (next_idx, next_idx2) kept at the two nearest     *)
(* unexpanded candidates so that popping the front is O(1).                *)
(*                                                                         *)
(* A queue is a record of the class's fields.  The three parallel arrays   *)
(* vid_queue, distances and expanded are one function `slot' over the L+1  *)
(* positions the constructor allocates: position L is the spill slot that  *)
(* a push into a full queue shifts the tail into.                          *)
(***************************************************************************)
EXTENDS Integers

CONSTANT L      \* queue_capacity, the beam width

\* push reads distances[queue_size-1] of a full queue: a width of 0 is never used.
ASSUME LAssumption == L \in Nat \ {0}

Slots == 0 .. L

\* vector::resize value-initialises the arrays.
Blank == [vid |-> 0, dist |-> 0, expanded |-> FALSE]

NewQueue ==
    [slot |-> [i \in Slots |-> Blank], size |-> 0, next_idx |-> 0, next_idx2 |-> 0]

Live(q) == 0 .. q.size - 1

HasUnexpanded(q) == q.next_idx < q.size

TailDist(q) == q.slot[q.size - 1].dist

\* The post-condition of std::lower_bound over the first `size' distances.
IsLowerBound(q, d, loc) ==
    /\ \A i \in 0 .. loc - 1 : q.slot[i].dist < d
    /\ loc < q.size => d <= q.slot[loc].dist

LowerBound(q, d) == CHOOSE loc \in 0 .. q.size : IsLowerBound(q, d, loc)

\* The while loop of set_front_expanded: from i, skip the expanded entries.
FirstUnexpanded(s, n, i) ==
    CHOOSE j \in i .. n : /\ j < n => ~ s[j].expanded
                          /\ \A k \in i .. j - 1 : s[k].expanded

\* Mutant: next_idx2 steps to the next position whatever its flag.
SetFrontExpandedBlindly(q) ==
    [q EXCEPT !.slot[q.next_idx].expanded = TRUE,
              !.next_idx  = q.next_idx2,
              !.next_idx2 = IF q.next_idx2 < q.size THEN q.next_idx2 + 1 ELSE q.size]

SetFrontExpanded(q) ==
    LET marked == [q.slot EXCEPT ![q.next_idx].expanded = TRUE]
        from   == IF q.next_idx2 < q.size THEN q.next_idx2 + 1 ELSE q.next_idx2
    IN  [slot      |-> marked,
         size      |-> q.size,
         next_idx  |-> q.next_idx2,
         next_idx2 |-> FirstUnexpanded(marked, q.size, from)]

\* Mutant: the flags are not moved with the entries.
ShiftedWithoutFlags(q, loc, vid, d) ==
    [i \in Slots |->
        CASE i = loc                 -> [vid |-> vid, dist |-> d, expanded |-> FALSE]
          [] loc < i /\ i <= q.size  -> [q.slot[i - 1] EXCEPT !.expanded = q.slot[i].expanded]
          [] OTHER                   -> q.slot[i]]

\* The three memmoves and the write at insert_loc.
Shifted(q, loc, vid, d) ==
    [i \in Slots |->
        CASE i = loc                 -> [vid |-> vid, dist |-> d, expanded |-> FALSE]
          [] loc < i /\ i <= q.size  -> q.slot[i - 1]
          [] OTHER                   -> q.slot[i]]

\* Mutant: next_idx2 alone is repaired.
InsertAtKeepsFront(q, loc, vid, d) ==
    [slot      |-> Shifted(q, loc, vid, d),
     size      |-> IF q.size < L THEN q.size + 1 ELSE q.size,
     next_idx  |-> q.next_idx,
     next_idx2 |-> IF loc <= q.next_idx2 THEN loc ELSE q.next_idx2]

InsertAt(q, loc, vid, d) ==
    LET size == IF q.size < L THEN q.size + 1 ELSE q.size
    IN  [slot      |-> Shifted(q, loc, vid, d),
         size      |-> size,
         next_idx  |-> IF loc <= q.next_idx THEN loc ELSE q.next_idx,
         next_idx2 |-> CASE loc <= q.next_idx ->
                              IF q.next_idx = size THEN size ELSE q.next_idx + 1
                         [] q.next_idx < loc /\ loc <= q.next_idx2 -> loc
                         [] OTHER -> q.next_idx2]

Push(q, vid, d) ==
    LET loc == LowerBound(q, d)
    IN  IF \/ q.size = L /\ d > TailDist(q)
           \/ loc < q.size /\ q.slot[loc].vid = vid
        THEN q
        ELSE InsertAt(q, loc, vid, d)

\* clear() forgets the entries and one of the two cursors.
Clear(q) == [q EXCEPT !.size = 0, !.next_idx = 0]
=============================================================================
