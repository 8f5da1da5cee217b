------------------------------ MODULE MCPQueue ------------------------------
(***************************************************************************)
(* PQueueSpec for TLC: candidates 1..7, of which 2 and 6 and also 3 and 7  *)
(* are equally far, so that behaviours with and without ties occur.        *)
(***************************************************************************)
EXTENDS PQueueSpec

MCVid == 1 .. 7
MCDist == <<5, 2, 9, 4, 7, 2, 9>>

\* A client that also clears the queue.
MCReuseSpec == Init /\ [][Next \/ ClearAll]_vars
=============================================================================
