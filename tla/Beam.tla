-------------------------------- MODULE Beam --------------------------------
(***************************************************************************)
(* What a beam promises to a search, with no queue in sight: of all        *)
(* candidates seen it considers the L nearest, and it expands the nearest  *)
(* of these that it has not expanded before.                               *)
(***************************************************************************)
EXTENDS Naturals, FiniteSets

CONSTANTS L, Vid, DistOf

VARIABLES seen, done

Nearer(v, w) == DistOf[v] < DistOf[w]

InBeam == {v \in seen : Cardinality({w \in seen : Nearer(w, v)}) < L}

Init == seen = {} /\ done = {}

See == \E v \in Vid : seen' = seen \cup {v} /\ UNCHANGED done

Expand == \E v \in InBeam \ done :
              /\ \A w \in InBeam \ done : ~ Nearer(w, v)
              /\ done' = done \cup {v}
              /\ UNCHANGED seen

Next == See \/ Expand

Spec == Init /\ [][Next]_<<seen, done>>
=============================================================================
