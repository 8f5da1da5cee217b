--------------------------- MODULE MCParlayMemory ---------------------------
(***************************************************************************)
(* The four parts of ParlayLib's memory management for TLC, in one run;    *)
(* which says the part a behaviour is about, the others rest.              *)
(***************************************************************************)
EXTENDS HazptrStack, ThreadIds, BlockAllocator, PoolAllocator, TLC

VARIABLES which

AllInit ==
    /\ which \in {"stack", "blocks", "ids", "pools"}
    /\ Init /\ BlockInit /\ IdInit /\ PoolInit

AllNext ==
    /\ UNCHANGED which
    /\ \/ which = "stack" /\ Next /\ UNCHANGED <<blockVars, idVars, poolVars>>
       \/ which = "blocks" /\ BlockNext /\ UNCHANGED <<vars, idVars, poolVars>>
       \/ which = "ids" /\ IdNext /\ UNCHANGED <<vars, blockVars, poolVars>>
       \/ which = "pools" /\ PoolNext /\ UNCHANGED <<vars, blockVars, idVars>>

AllSpec == AllInit /\ [][AllNext]_<<which, vars, blockVars, idVars, poolVars>>

Interchangeable == Permutations(Node) \cup Permutations(Value)
PowersOfTwo == [i \in 1 .. 17 |-> 2 ^ (i + 3)]
=============================================================================
