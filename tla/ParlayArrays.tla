---------------------------- MODULE ParlayArrays ----------------------------
(***************************************************************************)
(* What the models of ParlayLib's algorithms share: arrays whose cells may *)
(* hold no object, writes into them, and the inputs that the algorithms    *)
(* are checked on.  An element is <<key, id>>: algorithms look at keys,    *)
(* ids tell equal elements apart.  Loops that ParlayLib runs in parallel   *)
(* write disjoint cells; a cell written twice, or never, shows as Lost or  *)
(* Raw in the result, so the order of their iterations is left out.        *)
(***************************************************************************)
EXTENDS Integers, SequencesExt

CONSTANTS Raw,          \* a cell without an object
          Lost,         \* a cell whose object was overwritten by another
          MaxKey        \* keys are 0 .. MaxKey

Upto(n) == [i \in 1 .. n |-> i]
\* The concatenation makes TLC compute the elements here, once.
Each(Op(_), q) == [i \in DOMAIN q |-> Op(q[i])] \o <<>>
Tabulate(n, Op(_)) == [i \in 1 .. n |-> Op(i - 1)] \o <<>>
Raws(n) == [i \in 1 .. n |-> Raw]
Log2Up(n) == CHOOSE b \in 0 .. n : 2 ^ b >= n /\ \A c \in 0 .. b - 1 : 2 ^ c < n
Exchange(a, i, j) == [a EXCEPT ![i] = a[j], ![j] = a[i]]

\* slice::cut
Cut(q, s, e) == SubSeq(q, s + 1, e)

\* Objects q are constructed in the cells of "to" from position at (0 first) on.
WriteAt(to, at, q) ==
    Each(LAMBDA c : IF c - at \notin DOMAIN q THEN to[c] ELSE IF to[c] = Raw THEN q[c - at] ELSE Lost,
         Upto(Len(to)))

\* uninitialized_relocate(_n): the cells q move into the cells to
Relocate(to, q) == WriteAt(to, 0, q)

-----------------------------------------------------------------------------
Items(s) == Each(LAMBDA i : <<s[i], i>>, Upto(Len(s)))
Keys(q) == Each(LAMBDA e : e[1], q)
Ids(q) == Each(LAMBDA e : e[2], q)

\* The one stable order of q by key.
Stably(q) == FoldLeft(LAMBDA r, k : r \o SelectSeq(q, LAMBDA e : e[1] = k - 1), <<>>, Upto(MaxKey + 1))

\* r is a sorted rearrangement of q.
SortedAsIs(r, q) == /\ Len(r) = Len(q) /\ ToSet(r) = ToSet(q)
                    /\ \A i \in 1 .. Len(r) - 1 : r[i][1] <= r[i + 1][1]
=============================================================================
