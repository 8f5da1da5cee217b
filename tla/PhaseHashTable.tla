--------------------------- MODULE PhaseHashTable ---------------------------
(***************************************************************************)
(* parlay::hashtable (src/parlay/hash_table.h): linear probing in which a  *)
(* key of higher priority displaces one of lower priority, so that a set   *)
(* of keys has one layout.  Threads work in phases: inserts (or updates)   *)
(* may run together, deletes may, the two may not.  A step is one access   *)
(* to the table with what is computed from it.                             *)
(*                                                                         *)
(* An element is <<key, value>>, a key its own priority.  insert keeps the *)
(* larger value of equal keys (replaceQ), update adds the values up.       *)
(***************************************************************************)
EXTENDS Integers, FiniteSets

CONSTANTS Key, M,           \* positive keys; cells
          FirstIndices,     \* the hash functions considered, [Key -> cells]
          Caller,           \* threads
          MaxKeys, MaxTotal \* bounds: keys at a time, value of a key

VARIABLES firstIndex, TA,
          phase,            \* the kind of operation that runs now
          task,             \* what every thread has to do and has read
          total             \* history: the value each key should have, 0 for none
tableVars == <<firstIndex, TA, phase, task, total>>

Cell == 0 .. M - 1
Vacant == <<0, 0>>
Idle == [at |-> "idle"]

Increment(h) == (h + 1) % M
Decrement(h) == (h + M - 1) % M
LessIndex(a, b) == IF a < b THEN 2 * (b - a) < M ELSE 2 * (a - b) > M

TableInit == /\ firstIndex \in FirstIndices
             /\ TA = [i \in Cell |-> Vacant]
             /\ phase = "insert"
             /\ task = [t \in Caller |-> Idle]
             /\ total = [k \in Key |-> 0]

Becomes(t, state) == task' = [task EXCEPT ![t] = state] /\ UNCHANGED <<firstIndex, phase, total>>

\* cas(&TA[i], old, new)
Cas(i, old, new) == TA' = IF TA[i] = old THEN [TA EXCEPT ![i] = new] ELSE TA

Quiet == \A t \in Caller : task[t] = Idle
ChangePhase == /\ Quiet
               /\ \E p \in {"insert", "update", "delete"} \ {phase} : phase' = p
               /\ UNCHANGED <<firstIndex, TA, task, total>>

-----------------------------------------------------------------------------
\* insert and update
Allowed(k) == /\ Cardinality({o \in Key : total[o] > 0} \cup {k}) <= MaxKeys
              /\ total[k] < MaxTotal

BeginInsert(t) ==
    /\ phase # "delete" /\ task[t] = Idle
    /\ \E k \in Key, x \in IF phase = "insert" THEN 1 .. MaxTotal ELSE {1} :
          /\ Allowed(k)
          /\ task' = [task EXCEPT ![t] = [at |-> "look", v |-> <<k, x>>, i |-> firstIndex[k]]]
          /\ total' = [total EXCEPT ![k] = IF phase = "update" THEN @ + x ELSE IF x > @ THEN x ELSE @]
    /\ UNCHANGED <<firstIndex, TA, phase>>

Put(t, c, new) == Becomes(t, [at |-> "put", v |-> task[t].v, i |-> task[t].i, c |-> c, new |-> new])

LookForPlace(t) ==
    /\ task[t].at = "look"
    /\ LET v == task[t].v  i == task[t].i  c == TA[i] IN
         \/ v[1] > c[1] /\ Put(t, c, v)
         \/ v[1] < c[1] /\ Becomes(t, [task[t] EXCEPT !.i = Increment(i)])
         \/ v[1] = c[1] /\ phase = "insert" /\ v[2] <= c[2] /\ Becomes(t, Idle)
         \/ v[1] = c[1] /\ phase = "insert" /\ v[2] > c[2] /\ Put(t, c, v)
         \/ v[1] = c[1] /\ phase = "update" /\ Put(t, c, <<c[1], c[2] + v[2]>>)
    /\ UNCHANGED TA

\* The displaced element is carried on; after a failure the cell is read again.
PutInPlace(t) ==
    /\ task[t].at = "put"
    /\ LET s == task[t]  carry(v, i) == [at |-> "look", v |-> v, i |-> i] IN
         /\ Cas(s.i, s.c, s.new)
         /\ Becomes(t, IF TA[s.i] # s.c THEN carry(s.v, s.i)
                       ELSE IF s.c = Vacant \/ s.c[1] = s.v[1] THEN Idle
                       ELSE carry(s.c, Increment(s.i)))

-----------------------------------------------------------------------------
\* deleteVal: v the key to delete, j where it is looked for, i its first index
BeginDelete(t) ==
    /\ phase = "delete" /\ task[t] = Idle
    /\ \E k \in Key :
          /\ task' = [task EXCEPT ![t] = [at |-> "peek", v |-> k, i |-> firstIndex[k], j |-> firstIndex[k]]]
          /\ total' = [total EXCEPT ![k] = 0]
    /\ UNCHANGED <<firstIndex, TA, phase>>

\* What follows when c was read at j: one down, unless that is before i; or the
\* search for an element to fill j.
Judged(s, j, c) ==
    IF s.v # c[1]
    THEN IF j = s.i THEN Idle ELSE [at |-> "back", v |-> s.v, i |-> s.i, j |-> Decrement(j)]
    ELSE [at |-> "ahead", v |-> s.v, i |-> s.i, j |-> j, c |-> c, jj |-> Increment(j)]

\* The first cell whose key is not of higher priority.
Peek(t) ==
    /\ task[t].at = "peek"
    /\ LET s == task[t]  c == TA[s.j] IN
         Becomes(t, IF c[1] > s.v THEN [s EXCEPT !.j = Increment(s.j)] ELSE Judged(s, s.j, c))
    /\ UNCHANGED TA

Back(t) == /\ task[t].at = "back"
           /\ Becomes(t, Judged(task[t], task[t].j, TA[task[t].j]))
           /\ UNCHANGED TA

MayFill(j, x) == x = Vacant \/ ~LessIndex(j, firstIndex[x[1]])

Filled(s, jj, x, jjj) ==
    [at |-> IF jjj = s.j THEN "swap" ELSE "behind", v |-> s.v, i |-> s.i, j |-> s.j, c |-> s.c,
     jj |-> jj, x |-> x, jjj |-> jjj]

LookAhead(t) ==
    /\ task[t].at = "ahead"
    /\ LET s == task[t]  x == TA[s.jj] IN
         Becomes(t, IF MayFill(s.j, x) THEN Filled(s, s.jj, x, Decrement(s.jj))
                    ELSE [s EXCEPT !.jj = Increment(s.jj)])
    /\ UNCHANGED TA

\* Others move elements down meanwhile: the cells passed over are read again.
LookBehind(t) ==
    /\ task[t].at = "behind"
    /\ LET s == task[t]  y == TA[s.jjj] IN
         Becomes(t, IF MayFill(s.j, y) THEN Filled(s, s.jjj, y, Decrement(s.jjj))
                    ELSE Filled(s, s.jj, s.x, Decrement(s.jjj)))
    /\ UNCHANGED TA

\* Mutant: the second copy of the element moved is left where it was.
SwapInLeavingCopy(t) ==
    /\ task[t].at = "swap"
    /\ LET s == task[t] IN
         /\ Cas(s.j, s.c, s.x)
         /\ Becomes(t, IF TA[s.j] = s.c THEN Idle ELSE [at |-> "back", v |-> s.v, i |-> s.i, j |-> s.j])

\* Then there are two copies of x: one of them is deleted, from jj on.
SwapIn(t) ==
    /\ task[t].at = "swap"
    /\ LET s == task[t] IN
         /\ Cas(s.j, s.c, s.x)
         /\ Becomes(t, IF TA[s.j] # s.c THEN [at |-> "back", v |-> s.v, i |-> s.i, j |-> s.j]
                       ELSE IF s.x = Vacant THEN Idle
                       ELSE [at |-> "back", v |-> s.x[1], i |-> firstIndex[s.x[1]], j |-> s.jj])

-----------------------------------------------------------------------------
TableNext == \/ ChangePhase
             \/ \E t \in Caller : \/ BeginInsert(t) \/ LookForPlace(t) \/ PutInPlace(t)
                                  \/ BeginDelete(t) \/ Peek(t) \/ Back(t)
                                  \/ LookAhead(t) \/ LookBehind(t) \/ SwapIn(t)

-----------------------------------------------------------------------------
\* find and findIndex pass keys of higher priority; count and entries.
Past(k, d) == (firstIndex[k] + d) % M
FindIndex(k) ==
    LET stop == CHOOSE d \in Cell : /\ TA[Past(k, d)][1] <= k
                                    /\ \A e \in 0 .. d - 1 : TA[Past(k, e)][1] > k
    IN  IF TA[Past(k, stop)][1] = k THEN Past(k, stop) ELSE -1
Find(k) == IF FindIndex(k) = -1 THEN Vacant ELSE TA[FindIndex(k)]
Count == Cardinality({i \in Cell : TA[i] # Vacant})
Entries == {TA[i] : i \in Cell} \ {Vacant}

(***************************************************************************)
(* "history independent" (hash_table.h:20): after every phase the table    *)
(* holds each key that should be there once, with its value, in the only   *)
(* layout of these keys, so that find ends at the right cell.              *)
(***************************************************************************)
HistoryIndependent ==
    Quiet => /\ \A k \in Key : Find(k) = IF total[k] = 0 THEN Vacant ELSE <<k, total[k]>>
             /\ Entries = {<<k, total[k]>> : k \in {o \in Key : total[o] > 0}}
             /\ Count = Cardinality({k \in Key : total[k] > 0})
=============================================================================
