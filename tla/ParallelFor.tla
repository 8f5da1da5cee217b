---------------------------- MODULE ParallelFor ----------------------------
(***************************************************************************)
(* What parallel_for(start, end, f) promises (src/parlay/parallel.h):      *)
(* before it returns, f has been called exactly once for every index, in   *)
(* any order and by any worker.                                            *)
(***************************************************************************)
EXTENDS Naturals

CONSTANTS First, Last           \* start and end

VARIABLES calls,                \* how often f was called with each index
          returned

Indices == First .. Last - 1

Init ==
    /\ calls = [i \in Indices |-> 0]
    /\ returned = FALSE

Call(I) ==
    /\ ~returned /\ I # {} /\ \A i \in I : calls[i] = 0
    /\ calls' = [i \in Indices |-> IF i \in I THEN 1 ELSE calls[i]]
    /\ UNCHANGED returned

Return ==
    /\ ~returned /\ \A i \in Indices : calls[i] = 1
    /\ returned' = TRUE
    /\ UNCHANGED calls

Next == Return \/ \E I \in SUBSET Indices : Call(I)

Spec == Init /\ [][Next]_<<calls, returned>>
=============================================================================
