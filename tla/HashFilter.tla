----------------------------- MODULE HashFilter -----------------------------
(***************************************************************************)
(* The approximate visited set of the graph searches: class hash_filter of *)
(* src/hash_table.hpp, a direct-mapped table that remembers one identifier *)
(* per slot and forgets it when another one lands there.  It may answer    *)
(* "new" for an identifier it has seen, never "seen" for one it has not.   *)
(***************************************************************************)
EXTENDS Integers

Pow2[k \in Nat] == IF k = 0 THEN 1 ELSE 2 * Pow2[k - 1]
Lg(n) == CHOOSE e \in 0 .. n : Pow2[e] <= n /\ n < Pow2[e + 1]      \* std::__lg, n > 0

\* Mutant: one bit too few, a table no larger than the number asked for.
CapacityForRoundedDown(n) == Pow2[Lg(n)]

CapacityFor(n) == Pow2[Lg(n) + 1]

\* -1: "should not be a possible index".
NewFilter(n) ==
    [capacity |-> CapacityFor(n), seen |-> [h \in 0 .. CapacityFor(n) - 1 |-> -1]]

GetHash(f, thing) == thing % f.capacity

\* Mutant: a slot in use counts as seen, whoever uses it.
ContainsSlotUsed(f, thing) == f.seen[GetHash(f, thing)] # -1

Contains(f, thing) == f.seen[GetHash(f, thing)] = thing

\* add() is true unless Contains; it then remembers the new identifier.
Remember(f, thing) == [f EXCEPT !.seen[GetHash(f, thing)] = thing]
=============================================================================
