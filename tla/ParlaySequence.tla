---------------------------- MODULE ParlaySequence ----------------------------
(***************************************************************************)
(* parlay::sequence (src/parlay/sequence.h over                            *)
(* src/parlay/internal/sequence_base.h): a dynamic array, of trivial types *)
(* kept inside the object up to ShortCapacity elements, of others always   *)
(* in a buffer of its own.  Elements are cells that are constructed, moved *)
(* from and destroyed.  The operators on a memory m = [heap, obj, alive]   *)
(* are the member functions; positions are 0-based, as in the code.        *)
(***************************************************************************)
EXTENDS Integers, SequencesExt

CONSTANTS Name, Value,
          ShortCapacity,        \* 0: no small-size optimization, T is not trivial
          Granularity,          \* of compare_equal
          MaxLen, Buffer,       \* Buffer is 1 .. b
          Null, NoObject, Moved      \* no buffer; a cell without an object; a moved-from object

VARIABLES heap,                 \* the buffers, allocated or not, and their cells
          obj,                  \* sequence_base::storage of each name, and of temporaries
          alive,                \* objects constructed and not destroyed (not in the code)
          val                   \* what each sequence should be (not in the code)

seqVars == <<heap, obj, alive, val>>

Mem == [heap |-> heap, obj |-> obj, alive |-> alive]
Temporary == {"tail", "other"}

\* Allocating never fails: all sequences and the temporaries can have a buffer and one is left.
SequenceConstants ==
    /\ ShortCapacity \in Nat /\ Granularity \in Nat \ {0}
    /\ IsFiniteSet(Name) /\ Name \cap Temporary = {}
    /\ IsFiniteSet(Buffer) /\ Buffer = 1 .. Cardinality(Buffer)
    /\ Cardinality(Buffer) > Cardinality(Name \cup Temporary)
    /\ Null \notin Buffer

Released == [used |-> FALSE, cells |-> <<>>]
Allocated(cells) == [used |-> TRUE, cells |-> cells]

\* set_to_empty_representation: all bits zero; long sequences
Empty == [flag |-> 0, n |-> 0, buf |-> Null, short |-> [i \in 1 .. ShortCapacity |-> NoObject]]
Long(b, n) == [flag |-> 1, n |-> n, buf |-> b, short |-> <<>>]

IsSmall(m, x) == ShortCapacity > 0 /\ m.obj[x].flag = 0
Size(m, x) == m.obj[x].n
Cells(m, x) == IF IsSmall(m, x) THEN m.obj[x].short
               ELSE IF m.obj[x].buf = Null THEN <<>> ELSE m.heap[m.obj[x].buf].cells
Capacity(m, x) == Len(Cells(m, x))
Elements(m, x) == SubSeq(Cells(m, x), 1, Size(m, x))
SetSize(m, x, n) == [m EXCEPT !.obj[x].n = n]

Put(m, x, cells) ==
    LET new == [i \in 1 .. Capacity(m, x) |-> IF i \in DOMAIN cells THEN cells[i] ELSE Cells(m, x)[i]]
    IN  IF IsSmall(m, x) THEN [m EXCEPT !.obj[x].short = new]
        ELSE IF m.obj[x].buf = Null THEN m ELSE [m EXCEPT !.heap[m.obj[x].buf] = Allocated(new)]
Construct(m, x, at, q) ==       \* the elements of q from position at on
    [Put(m, x, [i \in at + 1 .. at + Len(q) |-> q[i - at]]) EXCEPT !.alive = @ + Len(q)]
Destroy(m, x, from, to) ==
    [Put(m, x, [i \in from + 1 .. to |-> NoObject]) EXCEPT !.alive = @ - (to - from)]
\* What remains of a moved object: of a trivial type, itself.
MoveOut(m, x) ==
    IF ShortCapacity > 0 THEN m ELSE Put(m, x, [i \in 1 .. Size(m, x) |-> Moved])

Unused(m) == CHOOSE b \in Buffer : ~m.heap[b].used /\ \A c \in 1 .. b - 1 : m.heap[c].used
FreeBuffer(m, x) ==
    IF IsSmall(m, x) \/ m.obj[x].buf = Null THEN m ELSE [m EXCEPT !.heap[m.obj[x].buf] = Released]

ClearWithoutDestruction(m, x) == [FreeBuffer(m, x) EXCEPT !.obj[x] = Empty]
ClearStorage(m, x) == ClearWithoutDestruction(Destroy(m, x, 0, Size(m, x)), x)

InitializeCapacity(m, x, desired) ==
    IF ShortCapacity > 0 /\ desired <= ShortCapacity THEN [m EXCEPT !.obj[x].flag = 0]
    ELSE [m EXCEPT !.heap[Unused(m)] = Allocated([i \in 1 .. desired |-> NoObject]),
                   !.obj[x] = Long(Unused(m), 0)]

EnsureCapacity(m, x, desired) ==
    IF desired <= Capacity(m, x) THEN m
    ELSE LET n == Size(m, x)
             grown == (5 * Capacity(m, x)) \div 2
         IN  [FreeBuffer(m, x) EXCEPT
                !.heap[Unused(m)] = Allocated([i \in 1 .. (IF desired >= grown THEN desired ELSE grown) |->
                                                  IF i <= n THEN Cells(m, x)[i] ELSE NoObject]),
                !.obj[x] = Long(Unused(m), n)]

-----------------------------------------------------------------------------
\* initialize_range and initialize_fill, on an empty storage
Initialize(m, x, q) ==
    SetSize(Construct(InitializeCapacity(m, x, Len(q)), x, 0, q), x, Len(q))

CopySharing(m, x, y) ==         \* mutant: a long sequence is copied like a short one
    [m EXCEPT !.obj[x] = m.obj[y], !.alive = @ + Size(m, y)]

Copy(m, x, y) ==                \* the copy constructor
    IF IsSmall(m, y) THEN [m EXCEPT !.obj[x] = m.obj[y], !.alive = @ + Size(m, y)]
    ELSE Initialize(m, x, Elements(m, y))

MoveFrom(m, x, y) == [m EXCEPT !.obj[x] = m.obj[y], !.obj[y] = Empty]
Swap(m, x, y) == [m EXCEPT !.obj[x] = m.obj[y], !.obj[y] = m.obj[x]]

\* operator=(sequence b): b is made by copy or move, swapped and destroyed
Assign(m, x) == ClearStorage(Swap(m, x, "other"), "other")

\* append_n and append_range
Append_(m, x, q) ==
    LET n == Size(m, x) IN
    SetSize(Construct(EnsureCapacity(m, x, n + Len(q)), x, n, q), x, n + Len(q))

EmplaceBack(m, x, v) == Append_(m, x, <<v>>)

\* append(sequence&&)
AppendMoved(m, x, y) ==
    IF Size(m, x) = 0 /\ Capacity(m, x) <= Size(m, y) THEN Assign(MoveFrom(m, "other", y), x)
    ELSE MoveOut(Append_(m, x, Elements(m, y)), y)

\* pop_tail, into a temporary
PopTail(m, x, p) ==
    IF p = Size(m, x) THEN m
    ELSE LET rest == SubSeq(Elements(m, x), p + 1, Size(m, x)) IN
         SetSize(Destroy(Initialize(m, "tail", rest), x, p, Size(m, x)), x, p)

\* move_append of the temporary, which is then destroyed
PutBack(m, x) == ClearStorage(Append_(m, x, Elements(m, "tail")), "tail")

Emplace(m, x, p, v) ==
    IF p = Size(m, x) THEN EmplaceBack(m, x, v)
    ELSE PutBack(EmplaceBack(PopTail(EnsureCapacity(m, x, Size(m, x) + 1), x, p), x, v), x)

InsertN(m, x, p, q) == PutBack(Append_(PopTail(EnsureCapacity(m, x, Size(m, x) + Len(q)), x, p), x, q), x)
InsertRange(m, x, p, q) == PutBack(Append_(PopTail(m, x, p), x, q), x)

PopBack(m, x) == SetSize(Destroy(m, x, Size(m, x) - 1, Size(m, x)), x, Size(m, x) - 1)

Resize(m, x, n, v) ==
    LET current == Size(m, x) IN
    SetSize(IF n < current THEN Destroy(m, x, n, current)
            ELSE Construct(EnsureCapacity(m, x, n), x, current, [i \in 1 .. n - current |-> v]), x, n)

Erase(m, x, q) ==
    IF q = Size(m, x) - 1 THEN PopBack(m, x) ELSE PutBack(PopBack(PopTail(m, x, q + 1), x), x)

EraseRange(m, x, q1, q2) ==
    LET cut == PopTail(m, x, q2) IN
    PutBack(Resize(cut, x, Size(cut, x) - (q2 - q1), Null), x)

\* A new sequence from the cells of y, which clear_relocated leaves empty.
RelocateN(m, x, y) ==
    LET room == SetSize(InitializeCapacity(m, x, Size(m, y)), x, Size(m, y)) IN
    ClearWithoutDestruction(Put(room, x, Elements(m, y)), y)

\* compare_equal: a first block in sequence, then blocks of twice the length each, the
\* one from start on of length start + Granularity
Equal(m, x, y) ==
    LET a == Elements(m, x)  b == Elements(m, y)
        SameUpTo(from, n) == \A j \in from + 1 .. (IF n <= Len(a) THEN n ELSE Len(a)) : a[j] = b[j]
        sameFrom[start \in Nat] ==
           \/ start >= Len(a)
           \/ SameUpTo(start, 2 * start + Granularity) /\ sameFrom[2 * start + Granularity]
    IN  Len(a) = Len(b) /\ SameUpTo(0, Granularity) /\ sameFrom[Granularity]

-----------------------------------------------------------------------------
SeqInit ==
    /\ heap = [b \in Buffer |-> Released]
    /\ obj = [x \in Name \cup Temporary |-> Empty]
    /\ alive = 0
    /\ val = [x \in Name |-> <<>>]

Becomes(m, values) ==
    /\ \A x \in DOMAIN values : Len(values[x]) <= MaxLen
    /\ heap' = m.heap /\ obj' = m.obj /\ alive' = m.alive
    /\ val' = [x \in Name |-> IF x \in DOMAIN values THEN values[x] ELSE val[x]]

Only(x, q) == [y \in {x} |-> q]
Left(q) == IF ShortCapacity > 0 THEN q ELSE [i \in DOMAIN q |-> Moved]

Build(x) ==                     \* a new object in the place of the old one
    LET m == ClearStorage(Mem, x) IN
    \/ \E n \in 1 .. 2, v \in Value : LET q == [i \in 1 .. n |-> v] IN Becomes(Initialize(m, x, q), Only(x, q))
    \/ \E y \in Name \ {x} :
          \/ Becomes(Copy(m, x, y), Only(x, val[y]))
          \/ Becomes(MoveFrom(m, x, y), [z \in {x, y} |-> IF z = x THEN val[y] ELSE <<>>])
          \/ Becomes(RelocateN(m, x, y), [z \in {x, y} |-> IF z = x THEN val[y] ELSE <<>>])

Trade(x, y) ==
    \/ Becomes(Assign(Copy(Mem, "other", y), x), Only(x, val[y]))
    \/ x # y /\ Becomes(Assign(MoveFrom(Mem, "other", y), x),
                        [z \in {x, y} |-> IF z = x THEN val[y] ELSE <<>>])
    \/ x # y /\ Becomes(Swap(Mem, x, y), [z \in {x, y} |-> IF z = x THEN val[y] ELSE val[x]])
    \/ x # y /\ Becomes(AppendMoved(Mem, x, y),
                        LET taken == Size(Mem, x) = 0 /\ Capacity(Mem, x) <= Size(Mem, y) IN
                        [z \in {x, y} |-> IF z = x THEN val[x] \o val[y]
                                          ELSE IF taken THEN <<>> ELSE Left(val[y])])

Grow(x) ==
    \/ \E p \in 0 .. Len(val[x]), v \in Value :
          \/ Becomes(Emplace(Mem, x, p, v), Only(x, InsertAt(val[x], p + 1, v)))
          \/ Becomes(InsertN(Mem, x, p, <<v, v>>), Only(x, InsertAt(InsertAt(val[x], p + 1, v), p + 1, v)))
    \/ \E p \in 0 .. Len(val[x]), y \in Name \ {x} :
          Becomes(InsertRange(Mem, x, p, Elements(Mem, y)),
                  Only(x, SubSeq(val[x], 1, p) \o val[y] \o SubSeq(val[x], p + 1, Len(val[x]))))
    \/ \E n \in 1 .. MaxLen : Becomes(EnsureCapacity(Mem, x, n), Only(x, val[x]))         \* reserve
    \/ \E n \in Len(val[x]) .. MaxLen, v \in Value :
          Becomes(Resize(Mem, x, n, v), Only(x, val[x] \o [i \in 1 .. n - Len(val[x]) |-> v]))

Shrink(x) ==
    \/ \E q \in 0 .. Len(val[x]) - 1 : Becomes(Erase(Mem, x, q), Only(x, RemoveAt(val[x], q + 1)))
    \/ \E q1 \in 0 .. Len(val[x]) : \E q2 \in q1 .. Len(val[x]) :
          Becomes(EraseRange(Mem, x, q1, q2),
                  Only(x, SubSeq(val[x], 1, q1) \o SubSeq(val[x], q2 + 1, Len(val[x]))))
    \/ \E n \in 0 .. Len(val[x]) - 1, v \in Value :
          Becomes(Resize(Mem, x, n, v), Only(x, SubSeq(val[x], 1, n)))
    \/ val[x] # <<>> /\ Becomes(PopBack(Mem, x), Only(x, Front(val[x])))
    \/ Becomes(ClearStorage(Mem, x), Only(x, <<>>))

SeqNext ==
    \/ \E x \in Name : Build(x) \/ Grow(x) \/ Shrink(x)
    \/ \E x, y \in Name : Trade(x, y)

SeqSpec == SeqInit /\ [][SeqNext]_seqVars

-----------------------------------------------------------------------------
(* However sequences are built, grown, shrunk, moved and swapped, inside   *)
(* their objects or in buffers: each holds what a sequence value would,    *)
(* cells past its end hold no object, none is lost or destroyed twice,     *)
(* each buffer is owned by exactly one sequence, and comparison by blocks  *)
(* is equality.                                                            *)
ActsAsSequence ==
    /\ \A x \in Name : /\ Elements(Mem, x) = val[x]
                       /\ \A i \in Size(Mem, x) + 1 .. Capacity(Mem, x) : Cells(Mem, x)[i] = NoObject
                       /\ Size(Mem, x) <= Capacity(Mem, x)
    /\ \A t \in Temporary : obj[t] = Empty
    /\ alive = Cardinality(UNION {{x} \X (1 .. Size(Mem, x)) : x \in Name})
    /\ \A b \in Buffer :
          Cardinality({x \in Name : ~IsSmall(Mem, x) /\ obj[x].buf = b}) = IF heap[b].used THEN 1 ELSE 0
    /\ \A x, y \in Name : Equal(Mem, x, y) <=> val[x] = val[y]
=============================================================================
