------------------------------ MODULE VertexSets ------------------------------
(***************************************************************************)
(* The sets of vertices of the graph library (src/VertexSet.hpp and .cpp): *)
(* sorted arrays that live in buffers of a pool the thread keeps, or, not  *)
(* pooled, in rows of a graph or in front of another set (bounded).        *)
(* Buffers are memory: what an operation reads is what was last written    *)
(* there, also when it writes to the buffer it reads from.                 *)
(***************************************************************************)
EXTENDS Integers, Sequences, FiniteSets, FiniteSetsExt

CONSTANTS Name,                 \* the variables of the client
          Rows,                 \* rows of a graph, each with its vertex: <<v, sorted sequence>>
          Vid, MAX_DEGREE,
          Bounds,               \* the bounds asked for
          BoundedLinear,        \* sizes above which bounded, 64 in the code, and
          ContainsLinear,       \* contains, 32 in the code, search by bisection
          Width, Nothing

VARIABLES mem,                  \* memory: the pool's buffers, by the order they were made
          avail,                \* buffers_avail
          set,                  \* VertexSet of each name, or Nothing
          val                   \* what the set stands for (not in the code)

setVars == <<mem, avail, set, val>>

Wrap(n) == n % 2 ^ Width        \* vidType is unsigned

Row == 1 .. Len(Rows)
\* A pointer is <<"row", i>>, <<"buf", i>> or Nothing.
At(m, s) == IF s.ptr[1] = "row" THEN Rows[s.ptr[2]][2] ELSE m[s.ptr[2]]
Elems(m, s) == SubSeq(At(m, s), 1, s.size)

-----------------------------------------------------------------------------
(* The loop all operations share: step over the lesser head of the two     *)
(* arrays, over both when they are equal, until one ends or reaches upper. *)
(* keep says whether common elements are put out or those of the left only *)
(* and not which ones are left out.  out is the buffer written, or Nothing *)
(* when elements are only counted.                                         *)
Write(m, out, k, x) == IF out = Nothing THEN m ELSE [m EXCEPT ![out][k + 1] = x]

RECURSIVE Both(_, _, _, _, _, _, _)
Both(st, a, b, out, upper, keep, not) ==
    IF st.l >= a.size \/ st.r >= b.size THEN st
    ELSE LET left == At(st.m, a)[st.l + 1]
             right == At(st.m, b)[st.r + 1]
             use == left \notin not /\ IF keep = "common" THEN left = right ELSE left < right
         IN  IF left >= upper \/ right >= upper THEN st
             ELSE Both([m |-> IF use THEN Write(st.m, out, st.k, left) ELSE st.m,
                        l |-> IF left <= right THEN st.l + 1 ELSE st.l,
                        r |-> IF right <= left THEN st.r + 1 ELSE st.r,
                        k |-> IF use THEN st.k + 1 ELSE st.k], a, b, out, upper, keep, not)

RECURSIVE Remaining(_, _, _, _, _)     \* the loop over what is left of a in the differences
Remaining(st, a, b, out, upper) ==
    IF st.l >= a.size \/ At(st.m, a)[st.l + 1] >= upper THEN st
    ELSE LET left == At(st.m, a)[st.l + 1]
             use == left # b.vid
         IN  Remaining([st EXCEPT !.m = IF use THEN Write(st.m, out, st.k, left) ELSE @,
                                  !.l = @ + 1, !.k = IF use THEN @ + 1 ELSE @], a, b, out, upper)


Begin(m) == [m |-> m, l |-> 0, r |-> 0, k |-> 0]
Unbounded == 2 ^ Width

Intersected(m, a, b, out, upper, except) == Both(Begin(m), a, b, out, upper, "common", except)

DifferenceUpToEnd(m, a, b, out, upper) ==           \* mutant: nothing after the end of other
    Both(Begin(m), a, b, out, upper, "left", {b.vid})

Difference(m, a, b, out, upper) ==
    Remaining(Both(Begin(m), a, b, out, upper, "left", {b.vid}), a, b, out, upper)

RECURSIVE Covered(_, _, _, _, _)       \* subsetof
Covered(m, a, b, l, r) ==
    IF l >= a.size THEN TRUE
    ELSE LET left == At(m, a)[l + 1]
             firstNotLess == CHOOSE i \in r .. b.size :
                               /\ \A j \in r .. i - 1 : At(m, b)[j + 1] < left
                               /\ i = b.size \/ At(m, b)[i + 1] >= left
         IN  /\ firstNotLess < b.size /\ At(m, b)[firstNotLess + 1] = left
             /\ Covered(m, a, b, l + 1, firstNotLess)

(* bounded: the number of elements below up.  The bisection starts at      *)
(* vidType(-1), so that differences and means wrap around.                 *)
RECURSIVE Bisect(_, _, _, _, _)
Bisect(m, a, up, l, r) ==
    IF Wrap(r - l) <= 1 THEN Wrap(l + 1)
    ELSE LET t == Wrap(l + r) \div 2 IN
         IF At(m, a)[t + 1] < up THEN Bisect(m, a, up, t, r) ELSE Bisect(m, a, up, l, t)

Below(m, a, up) ==
    IF a.size > BoundedLinear THEN Bisect(m, a, up, Wrap(-1), a.size)
    ELSE CHOOSE i \in 0 .. a.size : /\ \A j \in 1 .. i : At(m, a)[j] < up
                                    /\ i = a.size \/ At(m, a)[i + 1] >= up

RECURSIVE Search(_, _, _, _, _)
Search(m, a, v, l, r) ==
    /\ l <= r
    /\ LET mid == (l + r) \div 2
           x == At(m, a)[mid + 1]
       IN  x = v \/ IF x < v THEN Search(m, a, v, mid + 1, r) ELSE Search(m, a, v, l, mid - 1)

Contains(m, a, v) ==
    IF a.size > ContainsLinear THEN Search(m, a, v, 0, a.size - 1)
    ELSE \E i \in 1 .. a.size : At(m, a)[i] = v

(* The overloads on lists of half-open intervals <<begin, end>>, none      *)
(* empty and no two of a list touching: points of q in the intervals, and  *)
(* points common to two lists.                                             *)
RECURSIVE PointsIn(_, _, _)
PointsIn(q, itv, up) ==
    IF q = <<>> \/ itv = <<>> THEN 0
    ELSE LET v == Head(q)
             from == itv[1][1]
             to == itv[1][2]
         IN  CASE v >= up \/ from >= up -> 0
               [] v < up /\ v < from /\ from < up -> PointsIn(Tail(q), itv, up)
               [] v < up /\ v >= to -> PointsIn(IF v = to THEN Tail(q) ELSE q, Tail(itv), up)
               [] OTHER -> 1 + PointsIn(Tail(q), itv, up)

RECURSIVE Overlap(_, _, _)
Overlap(v, u, up) ==
    IF v = <<>> \/ u = <<>> THEN 0
    ELSE LET vb == v[1][1]  ve == v[1][2]  ub == u[1][1]  ue == u[1][2] IN
         CASE vb >= up \/ ub >= up -> 0
           [] vb < up /\ vb >= ue -> Overlap(v, Tail(u), up)
           [] ub < up /\ ub >= ve -> Overlap(Tail(v), u, up)
           [] OTHER -> Overlap(IF ve <= ue THEN Tail(v) ELSE v, IF ve >= ue THEN Tail(u) ELSE u, up)
                         + Min({up, ve, ue}) - Max({vb, ub})

-----------------------------------------------------------------------------
Live(n) == set[n] # Nothing
Owned(i) == \E n \in Name : Live(n) /\ set[n].pooled /\ set[n].ptr = <<"buf", i>>
Viewed(n) == \E o \in Name \ {n} : Live(o) /\ ~set[o].pooled /\ set[o].ptr = set[n].ptr
(* What is past the size of a set is left over and for nobody to read.     *)
Kept(m, i, k) == [m EXCEPT ![i] = [j \in 1 .. MAX_DEGREE |-> IF j <= k THEN @[j] ELSE Nothing]]
Garbage == [i \in 1 .. MAX_DEGREE |-> Nothing]

SetInit ==
    /\ mem = <<>> /\ avail = <<>>
    /\ set = [n \in Name |-> Nothing]
    /\ val = [n \in Name |-> {}]

\* VertexSet(): the buffer given back last, or a new one.
TakeBuffer ==
    IF avail = <<>> THEN [mem |-> Append(mem, Garbage), i |-> Len(mem) + 1, avail |-> avail]
    ELSE [mem |-> mem, i |-> avail[Len(avail)], avail |-> SubSeq(avail, 1, Len(avail) - 1)]

Made(n, ptr, size, vid, pooled, value) ==
    /\ set' = [set EXCEPT ![n] = [ptr |-> ptr, size |-> size, vid |-> vid, pooled |-> pooled]]
    /\ val' = [val EXCEPT ![n] = value]

\* An empty set, to be filled by the caller, of no vertex.
Create(n) ==
    /\ ~Live(n)
    /\ mem' = TakeBuffer.mem /\ avail' = TakeBuffer.avail
    /\ Made(n, <<"buf", TakeBuffer.i>>, 0, Wrap(-1), TRUE, {})

\* GraphT::N
Neighbors(n, i) ==
    /\ ~Live(n)
    /\ Made(n, <<"row", i>>, Len(Rows[i][2]), Rows[i][1], FALSE, {Rows[i][2][j] : j \in DOMAIN Rows[i][2]})
    /\ UNCHANGED <<mem, avail>>

(* add and sort: the callers' loops append in any order and sort after.    *)
AddSorted(n, v) ==
    /\ Live(n) /\ set[n].pooled /\ ~Viewed(n) /\ v \notin val[n] /\ set[n].size < MAX_DEGREE
    /\ LET s == set[n]
           new == Append(Elems(mem, s), v)
           sorted == CHOOSE q \in [1 .. Len(new) -> {new[i] : i \in DOMAIN new}] :
                        \A i \in 1 .. Len(new) - 1 : q[i] < q[i + 1]
       IN  /\ mem' = [mem EXCEPT ![s.ptr[2]] =
                        [i \in 1 .. MAX_DEGREE |-> IF i <= Len(new) THEN sorted[i] ELSE @[i]]]
           /\ Made(n, s.ptr, s.size + 1, s.vid, TRUE, val[n] \cup {v})
    /\ UNCHANGED avail

Clear(n) ==
    /\ Live(n) /\ set[n].pooled /\ ~Viewed(n)
    /\ Made(n, set[n].ptr, 0, set[n].vid, TRUE, {})
    /\ mem' = Kept(mem, set[n].ptr[2], 0)
    /\ UNCHANGED avail

Under(S, upper) == {x \in S : x < upper}

\* operator& and intersect(other, upper), into a new set
Intersect(n, a, b, upper) ==
    /\ ~Live(n) /\ Live(a) /\ Live(b)
    /\ LET new == TakeBuffer
           st == Intersected(new.mem, set[a], set[b], new.i, upper, {})
       IN  /\ mem' = st.m /\ avail' = new.avail
           /\ Made(n, <<"buf", new.i>>, st.k, Wrap(-1), TRUE, Under(val[a] \cap val[b], upper))

\* operator- and difference(other, upper), into a new set
Subtract(n, a, b, upper) ==
    /\ ~Live(n) /\ Live(a) /\ Live(b)
    /\ LET new == TakeBuffer
           st == Difference(new.mem, set[a], set[b], new.i, upper)
       IN  /\ mem' = st.m /\ avail' = new.avail
           /\ Made(n, <<"buf", new.i>>, st.k, Wrap(-1), TRUE,
                   Under(val[a] \ (val[b] \cup {set[b].vid}), upper))

(* difference(dst, other [, upper]): dst may be the set it is taken from,  *)
(* "outBuf may be the same as this->ptr"; dst keeps its own vertex.        *)
SubtractInto(dst, a, b, upper) ==
    /\ Live(dst) /\ Live(a) /\ Live(b) /\ dst # b
    /\ set[dst].pooled /\ ~Viewed(dst)
    /\ LET st == Difference(mem, set[a], set[b], set[dst].ptr[2], upper) IN
       /\ mem' = Kept(st.m, set[dst].ptr[2], st.k)
       /\ Made(dst, set[dst].ptr, st.k, set[dst].vid, TRUE,
               Under(val[a] \ (val[b] \cup {set[b].vid}), upper))
    /\ UNCHANGED avail

Bounded(n, a, up) ==            \* a view of the first elements of a
    /\ ~Live(n) /\ Live(a) /\ set[a].pooled
    /\ Made(n, set[a].ptr, Below(mem, set[a], up), set[a].vid, FALSE, Under(val[a], up))
    /\ UNCHANGED <<mem, avail>>

(* The destructor.  A view must have ended before; what is in a buffer     *)
(* that went back is gone for everyone.                                    *)
Destroy(n) ==
    /\ Live(n) /\ (set[n].pooled => ~Viewed(n))
    /\ set' = [set EXCEPT ![n] = Nothing] /\ val' = [val EXCEPT ![n] = {}]
    /\ IF set[n].pooled
       THEN avail' = Append(avail, set[n].ptr[2]) /\ mem' = [mem EXCEPT ![set[n].ptr[2]] = Garbage]
       ELSE UNCHANGED <<mem, avail>>

\* release_buffers, at the start of load_graph: no set may be alive
ReleaseBuffers ==
    /\ \A n \in Name : ~Live(n)
    /\ mem # <<>> /\ mem' = <<>> /\ avail' = <<>>
    /\ UNCHANGED <<set, val>>

Uppers == Bounds \cup {Unbounded}

SetNext ==
    \/ \E n \in Name : \/ Create(n)
                       \/ \E v \in Vid : AddSorted(n, v)
                       \/ \E i \in Row : Neighbors(n, i)
                       \/ Clear(n) \/ Destroy(n)
    \/ \E n, a, b \in Name, u \in Uppers :
          Intersect(n, a, b, u) \/ Subtract(n, a, b, u) \/ SubtractInto(n, a, b, u)
    \/ \E n, a \in Name, u \in Bounds : Bounded(n, a, u)
    \/ ReleaseBuffers

-----------------------------------------------------------------------------
Increasing(q) == \A i \in 1 .. Len(q) - 1 : q[i] < q[i + 1]

(* Every set alive holds, in order, exactly the vertices the operations    *)
(* that made it should have left in it, whichever buffers were reused or   *)
(* written in place since, and each buffer is available once or owned by   *)
(* one set.                                                                *)
SetsHoldTheirElements ==
    /\ \A n \in Name : Live(n) =>
          LET q == Elems(mem, set[n]) IN
          Increasing(q) /\ {q[i] : i \in DOMAIN q} = val[n]
    /\ \A i \in DOMAIN mem :
          Cardinality({k \in DOMAIN avail : avail[k] = i})
            + Cardinality({n \in Name : Live(n) /\ set[n].pooled /\ set[n].ptr = <<"buf", i>>}) = 1

\* A set as the list of its intervals, for the overloads on intervals.
RECURSIVE Intervals(_)
Intervals(S) ==
    IF S = {} THEN <<>>
    ELSE LET from == Min(S)
             to == CHOOSE e \in from + 1 .. Max(S) + 1 : e \notin S /\ from .. e - 1 \subseteq S
         IN  <<<<from, to>>>> \o Intervals({x \in S : x > to})

(* The operations that only count or test agree with the ones that build   *)
(* sets: intersect_ns, intersect_except, difference_ns, subsetof, contains,*)
(* and intersection_num on lists of intervals.                             *)
CountsAgree ==
    \A a, b \in {n \in Name : Live(n)}, u \in Uppers :
       /\ Intersected(mem, set[a], set[b], Nothing, u, {}).k = Cardinality(Under(val[a] \cap val[b], u))
       /\ \A v \in Vid : Intersected(mem, set[a], set[b], Nothing, u, {v}).k
                            = Cardinality(Under(val[a] \cap val[b], u) \ {v})
       /\ Difference(mem, set[a], set[b], Nothing, u).k
            = Cardinality(Under(val[a] \ (val[b] \cup {set[b].vid}), u))
       /\ Cardinality(Under(val[a] \cap val[b], u))
            = PointsIn(Elems(mem, set[a]), Intervals(val[b]), u)
       /\ Cardinality(Under(val[a] \cap val[b], u)) = Overlap(Intervals(val[a]), Intervals(val[b]), u)
       /\ Covered(mem, set[a], set[b], 0, 0) <=> val[a] \subseteq val[b]
       /\ \A v \in Vid : /\ Contains(mem, set[a], v) <=> v \in val[a]
                         /\ Below(mem, set[a], v) = Cardinality(Under(val[a], v))

\* SetsHoldTheirElements and CountsAgree.
SetsAreExact == SetsHoldTheirElements /\ CountsAgree
=============================================================================
