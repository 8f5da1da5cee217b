---------------------------- MODULE MemoryProofs ----------------------------
(***************************************************************************)
(* Proofs about the memory management of ParlayLib.  ThreadIds, without a  *)
(* bound on how often threads die and come back: ids are unique among live *)
(* threads, and no id below num_thread_ids is lost.  BlockAllocator, for   *)
(* any threads, buffers and list length: no block is lost or in two places.*)
(* PoolAllocator, for any pool sizes and alignments: buffers fit what they *)
(* are given for, also when they are used again.  ParlaySequence, for any  *)
(* sequences in either representation: each acts as a sequence value.      *)
(***************************************************************************)
EXTENDS ThreadIds, BlockAllocator, PoolAllocator, ParlaySequence, LeastNumber, FiniteSetTheorems,
        SequenceTheorems

Ptr == Id \cup {None}
Places == {"new", "lock", "locked", "first", "swap", "fresh", "owner", "dying"}
Regs == [at : Places, id : Ptr, next : Ptr]
Taking(o) == th[o].at \in {"first", "swap"}

TypesInv ==
    /\ num \in 0 .. MaxIds
    /\ available \in Ptr
    /\ nextId \in [Id -> Ptr]
    /\ mutex \in Owner \cup {None}
    /\ th \in [Owner -> Regs]
    /\ \A o \in Owner : Held(o) \/ Taking(o) => th[o].id \in Id

\* One thread at a time is past the lock.
MutexInv == \A o \in Owner : th[o].at = "locked" \/ Taking(o) <=> mutex = o

\* The next that a taker has read is still that of its id: only the thread that
\* holds an id writes its next, and no other thread takes ids from the list.
ReadInv == \A o \in Owner : th[o].at = "swap" => th[o].next = nextId[th[o].id]

UniqueInv == \A o, p \in Owner : Held(o) /\ Held(p) /\ th[o].id = th[p].id => o = p

\* The ids are in the list or with a thread, and the one that a taker has
\* read is still in the list.
Counted(list, n) ==
    \A i \in Id : i < num <=> \/ \E k \in 1 .. n : list[k] = i
                              \/ \E o \in Owner : Held(o) /\ th[o].id = i
Apart(list, n) == \A o \in Owner : Held(o) => \A k \in 1 .. n : list[k] # th[o].id
Listed(list, n) == \A o \in Owner : Taking(o) => \E k \in 1 .. n : list[k] = th[o].id

ListIs(list, n) == Lists(list, n) /\ Counted(list, n) /\ Apart(list, n) /\ Listed(list, n)
ListInv == \E n \in Nat : \E list \in [1 .. n -> Id] : ListIs(list, n)

IdInv == TypesInv /\ MutexInv /\ ReadInv /\ UniqueInv /\ ListInv

-----------------------------------------------------------------------------
\* An injective list of numbers below m has at most m of them.
LEMMA FewEnough ==
  ASSUME NEW n \in Nat, NEW m \in Nat, NEW list \in [1 .. n -> 0 .. m - 1],
         \A j, k \in 1 .. n : list[j] = list[k] => j = k
  PROVE  n <= m
<1> DEFINE D == 1 .. n
           E == 0 .. m - 1
<1>1. IsFiniteSet(D) /\ Cardinality(D) = n
  BY FS_Interval
<1>2. IsFiniteSet(E) /\ Cardinality(E) = m
  BY FS_Interval
<1>3. list \in [D -> E] /\ \A j, k \in D : list[j] = list[k] => j = k
  OBVIOUS
<1> HIDE DEF D, E
<1>4. Cardinality(D) <= Cardinality(E)
  <2>1. SUFFICES ASSUME Cardinality(D) > Cardinality(E) PROVE FALSE
    BY <1>1, <1>2, FS_CardinalityType
  <2>2. \E j, k \in D : j # k /\ list[j] = list[k]
    BY <1>1, <1>2, <1>3, <2>1, FS_PigeonHole, SMTT(30)
  <2>. QED
    BY <1>3, <2>2
<1>. QED
  BY <1>1, <1>2, <1>4

\* The list is not empty if an id is available, and its first is that id.
LEMMA FirstListed ==
  ASSUME NEW n \in Nat, NEW list \in [1 .. n -> Id], Lists(list, n)
  PROVE  /\ available # None => n > 0 /\ 1 \in 1 .. n /\ list[1] = available
         /\ available = None => n = 0
  BY IdsAssumption DEF Lists, Id

LEMMA InvImplies ==
  ASSUME IdInv
  PROVE  IdsUniqueAndDense
<1>1. PICK n \in Nat : \E list \in [1 .. n -> Id] : ListIs(list, n)
  BY DEF IdInv, ListInv
<1>2. PICK list \in [1 .. n -> Id] : ListIs(list, n)
  BY <1>1
<1>3. num \in Nat
  BY IdsAssumption DEF IdInv, TypesInv
<1>4. \A k \in 1 .. n : list[k] \in 0 .. num - 1
  <2>1. \A k \in 1 .. n : list[k] \in Id /\ list[k] < num
    BY <1>2 DEF ListIs, Counted
  <2>. QED
    BY <1>3, <2>1 DEF Id
<1>5. list \in [1 .. n -> 0 .. num - 1]
  BY <1>4
<1>6. n <= num
  BY <1>2, <1>3, <1>5, FewEnough DEF ListIs, Lists
<1>7. n \in 0 .. num
  BY <1>3, <1>6
<1>. QED
  BY <1>2, <1>5, <1>7 DEF IdsUniqueAndDense, IdInv, UniqueInv, ListIs, Counted, Apart

-----------------------------------------------------------------------------
LEMMA InitInv ==
  ASSUME IdInit
  PROVE  IdInv
<1>1. TypesInv /\ MutexInv /\ ReadInv /\ UniqueInv
  BY IdsAssumption DEF IdInit, TypesInv, MutexInv, ReadInv, UniqueInv, Ptr, Places, Regs, Held, Taking
<1>2. ListIs(<<>>, 0)
  BY DEF IdInit, ListIs, Lists, Counted, Apart, Listed, Held, Taking, Id
<1>3. <<>> \in [1 .. 0 -> Id]
  OBVIOUS
<1>. QED
  BY <1>1, <1>2, <1>3 DEF IdInv, ListInv

-----------------------------------------------------------------------------
(* The steps.  A step of one thread leaves the others as they are.         *)

LEMMA Goes ==
  ASSUME TypesInv, NEW o \in Owner, NEW r \in Regs, Go(o, r)
  PROVE  /\ th' \in [Owner -> Regs]
         /\ th'[o] = r
         /\ \A p \in Owner \ {o} : th'[p] = th[p]
  BY DEF TypesInv, Regs, Go

\* A step of the thread that does not touch the list, the ids that threads
\* hold, or the nexts of the listed ids.
LEMMA SameList ==
  ASSUME NEW n \in Nat, NEW list \in [1 .. n -> Id], ListIs(list, n),
         num' = num, available' = available,
         \A k \in 1 .. n : nextId'[list[k]] = nextId[list[k]],
         \A p \in Owner : (Held(p) <=> Held(p)') /\ (Held(p) => th'[p].id = th[p].id),
         \A p \in Owner : Taking(p)' => \/ Taking(p) /\ th'[p].id = th[p].id
                                        \/ \E k \in 1 .. n : list[k] = th'[p].id
  PROVE  ListInv'
<1>1. Lists(list, n)'
  BY DEF ListIs, Lists
<1>2. Counted(list, n)'
  BY DEF ListIs, Counted
<1>3. Apart(list, n)'
  BY DEF ListIs, Apart
<1>4. Listed(list, n)'
  BY DEF ListIs, Listed
<1>. QED
  BY <1>1, <1>2, <1>3, <1>4 DEF ListInv, ListIs

\* The ids that threads hold stay the same.
LEMMA SameHolders ==
  ASSUME UniqueInv,
         \A p \in Owner : (Held(p) <=> Held(p)') /\ (Held(p) => th'[p].id = th[p].id)
  PROVE  UniqueInv'
  BY DEF UniqueInv

LEMMA LookStep ==
  ASSUME IdInv, NEW o \in Owner, Look(o)
  PROVE  IdInv'
<1>1. PICK r : r = [th[o] EXCEPT !.at = IF available = None THEN "fresh" ELSE "lock"]
  OBVIOUS
<1>2. /\ th[o] \in Regs /\ th[o].at = "new"
  BY DEF Look, IdInv, TypesInv, Regs
<1>3. r \in Regs /\ r.at \in {"fresh", "lock"} /\ r.id = th[o].id /\ r.next = th[o].next
  BY <1>1, <1>2 DEF Regs, Places
<1>4. th' \in [Owner -> Regs] /\ th'[o] = r /\ \A p \in Owner \ {o} : th'[p] = th[p]
  BY <1>1, <1>3, Goes DEF Look, IdInv
<1>5. \A p \in Owner : (Held(p) <=> Held(p)') /\ (Taking(p) <=> Taking(p)') /\ th'[p].id = th[p].id
  BY <1>2, <1>3, <1>4 DEF Held, Taking
<1>6. UNCHANGED <<num, available, nextId, mutex>>
  BY DEF Look
<1>7. TypesInv'
  BY <1>4, <1>5, <1>6 DEF IdInv, TypesInv, Regs
<1>8. MutexInv'
  BY <1>2, <1>3, <1>4, <1>5, <1>6 DEF IdInv, MutexInv
<1>9. ReadInv'
  BY <1>3, <1>4, <1>6 DEF IdInv, ReadInv
<1>10. UniqueInv'
  BY <1>5, SameHolders DEF IdInv
<1>11. ListInv'
  BY <1>5, <1>6, SameList DEF IdInv, ListInv
<1>. QED
  BY <1>7, <1>8, <1>9, <1>10, <1>11 DEF IdInv

LEMMA LockStep ==
  ASSUME IdInv, NEW o \in Owner, Lock(o)
  PROVE  IdInv'
<1>1. PICK r : r = [th[o] EXCEPT !.at = "locked"]
  OBVIOUS
<1>2. /\ th[o] \in Regs /\ th[o].at = "lock" /\ mutex = None /\ None \notin Owner
  BY IdsAssumption DEF Lock, IdInv, TypesInv, Regs
<1>3. r \in Regs /\ r.at = "locked" /\ r.id = th[o].id /\ r.next = th[o].next
  BY <1>1, <1>2 DEF Regs, Places
<1>4. th' \in [Owner -> Regs] /\ th'[o] = r /\ \A p \in Owner \ {o} : th'[p] = th[p]
  BY <1>1, <1>3, Goes DEF Lock, IdInv
<1>5. \A p \in Owner : (Held(p) <=> Held(p)') /\ (Taking(p) <=> Taking(p)') /\ th'[p].id = th[p].id
  BY <1>2, <1>3, <1>4 DEF Held, Taking
<1>6. UNCHANGED <<num, available, nextId>> /\ mutex' = o
  BY DEF Lock
<1>7. TypesInv'
  BY <1>4, <1>5, <1>6 DEF IdInv, TypesInv, Regs
<1>8. MutexInv'
  BY <1>2, <1>3, <1>4, <1>5, <1>6 DEF IdInv, MutexInv
<1>9. ReadInv'
  BY <1>3, <1>4, <1>6 DEF IdInv, ReadInv
<1>10. UniqueInv'
  BY <1>5, SameHolders DEF IdInv
<1>11. ListInv'
  BY <1>5, <1>6, SameList DEF IdInv, ListInv
<1>. QED
  BY <1>7, <1>8, <1>9, <1>10, <1>11 DEF IdInv

LEMMA ReadFirstStep ==
  ASSUME IdInv, NEW o \in Owner, ReadFirst(o)
  PROVE  IdInv'
<1>1. /\ th[o] \in Regs /\ th[o].at = "locked" /\ mutex = o
      /\ None \notin Owner /\ available \in Ptr /\ None \notin Id
  BY IdsAssumption DEF ReadFirst, IdInv, TypesInv, MutexInv, Regs, Id
<1>2. UNCHANGED <<num, available, nextId>>
  BY DEF ReadFirst
<1>3. CASE available = None
  <2>1. PICK r : r = [th[o] EXCEPT !.at = "fresh"]
    OBVIOUS
  <2>2. r \in Regs /\ r.at = "fresh" /\ r.id = th[o].id /\ r.next = th[o].next
    BY <1>1, <2>1 DEF Regs, Places
  <2>3. Go(o, r) /\ mutex' = None
    BY <1>1, <1>3, <2>1 DEF ReadFirst
  <2>4. th' \in [Owner -> Regs] /\ th'[o] = r /\ \A p \in Owner \ {o} : th'[p] = th[p]
    BY <2>2, <2>3, Goes DEF IdInv
  <2>5. \A p \in Owner : (Held(p) <=> Held(p)') /\ (Taking(p) <=> Taking(p)') /\ th'[p].id = th[p].id
    BY <1>1, <2>2, <2>4 DEF Held, Taking
  <2>6. TypesInv'
    BY <1>2, <2>3, <2>4, <2>5 DEF IdInv, TypesInv, Regs
  <2>7. MutexInv'
    BY <1>1, <2>2, <2>3, <2>4, <2>5 DEF IdInv, MutexInv, Taking
  <2>8. ReadInv'
    BY <1>2, <2>2, <2>4 DEF IdInv, ReadInv
  <2>9. UniqueInv'
    BY <2>5, SameHolders DEF IdInv
  <2>10. ListInv'
    BY <1>2, <2>5, SameList DEF IdInv, ListInv
  <2>. QED
    BY <2>6, <2>7, <2>8, <2>9, <2>10 DEF IdInv
<1>4. CASE available # None
  <2>1. PICK r : r = [th[o] EXCEPT !.at = "first", !.id = available]
    OBVIOUS
  <2>2. r \in Regs /\ r.at = "first" /\ r.id = available
    BY <1>1, <2>1 DEF Regs, Places
  <2>3. Go(o, r) /\ mutex' = mutex
    BY <1>4, <2>1 DEF ReadFirst
  <2>4. th' \in [Owner -> Regs] /\ th'[o] = r /\ \A p \in Owner \ {o} : th'[p] = th[p]
    BY <2>2, <2>3, Goes DEF IdInv
  <2>5. /\ \A p \in Owner : (Held(p) <=> Held(p)') /\ (Held(p) => th'[p].id = th[p].id)
        /\ \A p \in Owner \ {o} : (Taking(p) <=> Taking(p)') /\ th'[p].id = th[p].id
    BY <1>1, <2>2, <2>4 DEF Held, Taking
  <2>6. available \in Id
    BY <1>1, <1>4 DEF Ptr
  <2>7. TypesInv'
    BY <1>2, <2>2, <2>3, <2>4, <2>5, <2>6 DEF IdInv, TypesInv, Regs
  <2>8. MutexInv'
    BY <1>1, <2>2, <2>3, <2>4, <2>5 DEF IdInv, MutexInv, Taking
  <2>9. ReadInv'
    BY <1>2, <2>2, <2>4 DEF IdInv, ReadInv
  <2>10. UniqueInv'
    BY <2>5, SameHolders DEF IdInv
  <2>11. ListInv'
    <3>1. PICK n \in Nat : \E list \in [1 .. n -> Id] : ListIs(list, n)
      BY DEF IdInv, ListInv
    <3>2. PICK list \in [1 .. n -> Id] : ListIs(list, n)
      BY <3>1
    <3>3. \E k \in 1 .. n : list[k] = th'[o].id
      BY <1>4, <2>2, <2>4, <3>2, FirstListed DEF ListIs
    <3>. QED
      BY <1>2, <2>5, <3>2, <3>3, SameList
  <2>. QED
    BY <2>7, <2>8, <2>9, <2>10, <2>11 DEF IdInv
<1>. QED
  BY <1>3, <1>4

LEMMA ReadNextStep ==
  ASSUME IdInv, NEW o \in Owner, ReadNext(o)
  PROVE  IdInv'
<1>1. PICK r : r = [th[o] EXCEPT !.at = "swap", !.next = nextId[th[o].id]]
  OBVIOUS
<1>2. th[o] \in Regs /\ th[o].at = "first" /\ nextId[th[o].id] \in Ptr
  BY DEF ReadNext, IdInv, TypesInv, Taking
<1>3. r \in Regs /\ r.at = "swap" /\ r.id = th[o].id /\ r.next = nextId[r.id]
  BY <1>1, <1>2 DEF Regs, Places
<1>4. th' \in [Owner -> Regs] /\ th'[o] = r /\ \A p \in Owner \ {o} : th'[p] = th[p]
  BY <1>1, <1>3, Goes DEF ReadNext, IdInv
<1>5. \A p \in Owner : (Held(p) <=> Held(p)') /\ (Taking(p) <=> Taking(p)') /\ th'[p].id = th[p].id
  BY <1>2, <1>3, <1>4 DEF Held, Taking
<1>6. UNCHANGED <<num, available, nextId, mutex>>
  BY DEF ReadNext
<1>7. TypesInv'
  BY <1>4, <1>5, <1>6 DEF IdInv, TypesInv, Regs
<1>8. MutexInv'
  BY <1>2, <1>3, <1>4, <1>5, <1>6 DEF IdInv, MutexInv
<1>9. ReadInv'
  BY <1>3, <1>4, <1>6 DEF IdInv, ReadInv
<1>10. UniqueInv'
  BY <1>5, SameHolders DEF IdInv
<1>11. ListInv'
  BY <1>5, <1>6, SameList DEF IdInv, ListInv
<1>. QED
  BY <1>7, <1>8, <1>9, <1>10, <1>11 DEF IdInv

\* The swap fails: the thread reads the first id again.
LEMMA SwapFails ==
  ASSUME IdInv, NEW o \in Owner,
         th[o].at = "swap", Go(o, [th[o] EXCEPT !.at = "locked"]),
         UNCHANGED <<num, available, nextId, mutex>>
  PROVE  IdInv'
<1>1. PICK r : r = [th[o] EXCEPT !.at = "locked"]
  OBVIOUS
<1>2. th[o] \in Regs
  BY DEF IdInv, TypesInv
<1>3. r \in Regs /\ r.at = "locked" /\ r.id = th[o].id /\ r.next = th[o].next
  BY <1>1, <1>2 DEF Regs, Places
<1>4. th' \in [Owner -> Regs] /\ th'[o] = r /\ \A p \in Owner \ {o} : th'[p] = th[p]
  BY <1>1, <1>3, Goes DEF IdInv
<1>5. \A p \in Owner : (Held(p) <=> Held(p)') /\ (Taking(p)' => Taking(p)) /\ th'[p].id = th[p].id
  BY <1>3, <1>4 DEF Held, Taking
<1>6. \A p \in Owner : th'[p].at = "locked" \/ Taking(p)' <=> th[p].at = "locked" \/ Taking(p)
  BY <1>3, <1>4 DEF Taking
<1>7. TypesInv'
  BY <1>4, <1>5 DEF IdInv, TypesInv, Regs
<1>8. MutexInv'
  BY <1>6 DEF IdInv, MutexInv
<1>9. ReadInv'
  BY <1>3, <1>4 DEF IdInv, ReadInv
<1>10. UniqueInv'
  BY <1>5, SameHolders DEF IdInv
<1>11. ListInv'
  BY <1>5, SameList DEF IdInv, ListInv
<1>. QED
  BY <1>7, <1>8, <1>9, <1>10, <1>11 DEF IdInv

\* The swap takes the first id: it is this thread's now, and the list begins
\* with the next one, which the thread read while nobody else could take it.
LEMMA SwapTakes ==
  ASSUME IdInv, NEW o \in Owner,
         th[o].at = "swap", available = th[o].id, available' = th[o].next,
         Go(o, [at |-> "owner", id |-> th[o].id, next |-> None]),
         mutex' = IF mutex = o THEN None ELSE mutex,
         UNCHANGED <<num, nextId>>
  PROVE  IdInv'
<1>1. PICK r : r = [at |-> "owner", id |-> th[o].id, next |-> None]
  OBVIOUS
<1>2. /\ th[o] \in Regs /\ th[o].id \in Id /\ Taking(o) /\ mutex = o
      /\ th[o].next = nextId[th[o].id] /\ None \notin Owner /\ None \notin Id
  BY IdsAssumption DEF IdInv, TypesInv, MutexInv, ReadInv, Taking, Id
<1>3. r \in Regs /\ r.at = "owner" /\ r.id = th[o].id
  BY <1>1, <1>2 DEF Regs, Places, Ptr
<1>4. th' \in [Owner -> Regs] /\ th'[o] = r /\ \A p \in Owner \ {o} : th'[p] = th[p]
  BY <1>1, <1>3, Goes DEF IdInv
<1>5. \A p \in Owner : /\ p # o => (Held(p) <=> Held(p)') /\ (Taking(p) <=> Taking(p)')
                       /\ th'[p].id = th[p].id
  BY <1>3, <1>4 DEF Held, Taking
<1>6. Held(o)' /\ ~ Taking(o)' /\ ~ Held(o)
  BY <1>3, <1>4 DEF Held, Taking
<1>7. \A p \in Owner \ {o} : ~ Taking(p) /\ th[p].at # "locked"
  BY <1>2 DEF IdInv, MutexInv
<1>8. mutex' = None
  BY <1>2
<1>9. PICK n \in Nat : \E list \in [1 .. n -> Id] : ListIs(list, n)
  BY DEF IdInv, ListInv
<1>10. PICK list \in [1 .. n -> Id] : ListIs(list, n)
  BY <1>9
<1>11. n > 0 /\ 1 \in 1 .. n /\ list[1] = th[o].id
  BY <1>2, <1>10, FirstListed DEF ListIs
<1>12. TypesInv'
  <2>1. available' \in Ptr
    BY <1>2 DEF Regs
  <2>. QED
    BY <1>2, <1>4, <1>5, <1>6, <1>8, <2>1 DEF IdInv, TypesInv
<1>13. MutexInv'
  BY <1>2, <1>3, <1>4, <1>5, <1>6, <1>7, <1>8 DEF MutexInv
<1>14. ReadInv'
  BY <1>3, <1>4 DEF IdInv, ReadInv
<1>15. UniqueInv'
  <2>1. \A p \in Owner : Held(p) => th[p].id # th[o].id
    BY <1>10, <1>11 DEF ListIs, Apart
  <2>. QED
    BY <1>5, <1>6, <2>1 DEF IdInv, UniqueInv
<1>16. ListInv'
  <2>1. PICK rest : rest = [k \in 1 .. n - 1 |-> list[k + 1]]
    OBVIOUS
  <2>2. /\ n - 1 \in Nat
        /\ \A k \in 1 .. n - 1 : k + 1 \in 1 .. n /\ k + 1 # 1 /\ rest[k] = list[k + 1]
        /\ \A k \in 1 .. n : k # 1 => k - 1 \in 1 .. n - 1 /\ list[k] = rest[k - 1]
    BY <1>11, <2>1
  <2>3. rest \in [1 .. n - 1 -> Id]
    BY <2>1, <2>2
  <2>4. /\ \A k, m \in 1 .. n : list[k] = list[m] => k = m
        /\ \A k \in 1 .. n : nextId[list[k]] = IF k = n THEN None ELSE list[k + 1]
    BY <1>10 DEF ListIs, Lists
  <2>5. Lists(rest, n - 1)'
    <3>1. available' = IF n - 1 = 0 THEN None ELSE rest[1]
      BY <1>2, <1>11, <2>2, <2>4
    <3>2. \A k \in 1 .. n - 1 : nextId'[rest[k]] = IF k = n - 1 THEN None ELSE rest[k + 1]
      BY <2>2, <2>4
    <3>3. \A k, m \in 1 .. n - 1 : rest[k] = rest[m] => k = m
      BY <2>2, <2>4
    <3>. QED
      BY <3>1, <3>2, <3>3 DEF Lists
  <2>6. Counted(rest, n - 1)'
    <3>1. SUFFICES ASSUME NEW x \in Id
                   PROVE  x < num' <=> \/ \E k \in 1 .. n - 1 : rest[k] = x
                                       \/ \E p \in Owner : Held(p)' /\ th'[p].id = x
      BY DEF Counted
    <3>2. x < num <=> \/ \E k \in 1 .. n : list[k] = x
                      \/ \E p \in Owner : Held(p) /\ th[p].id = x
      BY <1>10 DEF ListIs, Counted
    <3>3. CASE x = th[o].id
      BY <1>5, <1>6, <1>11, <3>2, <3>3
    <3>4. CASE x # th[o].id
      <4>1. (\E k \in 1 .. n : list[k] = x) <=> \E k \in 1 .. n - 1 : rest[k] = x
        BY <1>11, <2>2, <3>4
      <4>2. (\E p \in Owner : Held(p) /\ th[p].id = x) <=> \E p \in Owner : Held(p)' /\ th'[p].id = x
        BY <1>5, <1>6, <3>4
      <4>. QED
        BY <3>2, <4>1, <4>2
    <3>. QED
      BY <3>3, <3>4
  <2>7. Apart(rest, n - 1)'
    <3>1. SUFFICES ASSUME NEW p \in Owner, Held(p)', NEW k \in 1 .. n - 1
                   PROVE  rest[k] # th'[p].id
      BY DEF Apart
    <3>2. CASE p = o
      BY <1>5, <1>11, <2>2, <2>4, <3>2
    <3>3. CASE p # o
      BY <1>5, <1>10, <2>2, <3>1, <3>3 DEF ListIs, Apart
    <3>. QED
      BY <3>2, <3>3
  <2>8. Listed(rest, n - 1)'
    BY <1>5, <1>6, <1>7 DEF Listed
  <2>. QED
    BY <2>2, <2>3, <2>5, <2>6, <2>7, <2>8 DEF ListInv, ListIs
<1>. QED
  BY <1>12, <1>13, <1>14, <1>15, <1>16 DEF IdInv

LEMMA FreshStep ==
  ASSUME IdInv, NEW o \in Owner, Fresh(o)
  PROVE  IdInv'
<1>1. PICK r : r = [at |-> "owner", id |-> num, next |-> None]
  OBVIOUS
<1>2. /\ th[o] \in Regs /\ th[o].at = "fresh" /\ num \in Nat /\ num \in Id
      /\ num' = num + 1 /\ num' \in 0 .. MaxIds
      /\ UNCHANGED <<available, nextId, mutex>>
  BY IdsAssumption DEF Fresh, IdInv, TypesInv, Id
<1>3. r \in Regs /\ r.at = "owner" /\ r.id = num
  BY <1>1, <1>2 DEF Regs, Places, Ptr
<1>4. th' \in [Owner -> Regs] /\ th'[o] = r /\ \A p \in Owner \ {o} : th'[p] = th[p]
  BY <1>1, <1>3, Goes DEF Fresh, IdInv
<1>5. /\ \A p \in Owner \ {o} : (Held(p) <=> Held(p)') /\ th'[p].id = th[p].id
      /\ \A p \in Owner : Taking(p) <=> Taking(p)'
      /\ Held(o)' /\ ~ Held(o) /\ ~ Taking(o)
  BY <1>2, <1>3, <1>4 DEF Held, Taking
<1>6. TypesInv'
  BY <1>2, <1>3, <1>4, <1>5 DEF IdInv, TypesInv
<1>7. MutexInv'
  BY <1>2, <1>3, <1>4, <1>5 DEF IdInv, MutexInv
<1>8. ReadInv'
  BY <1>2, <1>3, <1>4 DEF IdInv, ReadInv
<1>9. PICK n \in Nat : \E list \in [1 .. n -> Id] : ListIs(list, n)
  BY DEF IdInv, ListInv
<1>10. PICK list \in [1 .. n -> Id] : ListIs(list, n)
  BY <1>9
<1>11. /\ \A k \in 1 .. n : list[k] # num
       /\ \A p \in Owner : Held(p) => th[p].id # num
  <2>1. ~ (num < num)
    BY <1>2
  <2>. QED
    BY <1>2, <1>10, <2>1 DEF ListIs, Counted
<1>12. UniqueInv'
  BY <1>3, <1>4, <1>5, <1>11 DEF IdInv, UniqueInv
<1>13. Lists(list, n)'
  BY <1>2, <1>10 DEF ListIs, Lists
<1>14. Counted(list, n)'
  <2>1. SUFFICES ASSUME NEW x \in Id
                 PROVE  x < num' <=> \/ \E k \in 1 .. n : list[k] = x
                                     \/ \E p \in Owner : Held(p)' /\ th'[p].id = x
    BY DEF Counted
  <2>2. x < num <=> \/ \E k \in 1 .. n : list[k] = x
                    \/ \E p \in Owner : Held(p) /\ th[p].id = x
    BY <1>10 DEF ListIs, Counted
  <2>3. x < num' <=> x < num \/ x = num
    BY <1>2 DEF Id
  <2>4. (\E p \in Owner : Held(p)' /\ th'[p].id = x)
           <=> x = num \/ \E p \in Owner : Held(p) /\ th[p].id = x
    BY <1>3, <1>4, <1>5
  <2>. QED
    BY <2>2, <2>3, <2>4
<1>15. Apart(list, n)'
  BY <1>3, <1>4, <1>5, <1>10, <1>11 DEF ListIs, Apart
<1>16. Listed(list, n)'
  BY <1>5, <1>10 DEF ListIs, Listed
<1>. QED
  BY <1>6, <1>7, <1>8, <1>12, <1>13, <1>14, <1>15, <1>16 DEF IdInv, ListInv, ListIs

\* A thread writes the next of its own id: no taker has read it, and it is not
\* in the list.
LEMMA OwnNext ==
  ASSUME IdInv, NEW o \in Owner, Held(o),
         nextId' = [nextId EXCEPT ![th[o].id] = available]
  PROVE  /\ nextId' \in [Id -> Ptr]
         /\ nextId'[th[o].id] = available
         /\ \A p \in Owner : Taking(p) => nextId'[th[p].id] = nextId[th[p].id]
         /\ \A n \in Nat : \A list \in [1 .. n -> Id] :
               ListIs(list, n) => \A k \in 1 .. n : nextId'[list[k]] = nextId[list[k]]
<1>1. nextId \in [Id -> Ptr] /\ th[o].id \in Id /\ available \in Ptr
  BY DEF IdInv, TypesInv
<1>2. ASSUME NEW n \in Nat, NEW list \in [1 .. n -> Id], ListIs(list, n)
      PROVE  \A k \in 1 .. n : nextId'[list[k]] = nextId[list[k]]
  BY <1>1, <1>2 DEF ListIs, Apart
<1>3. ASSUME NEW p \in Owner, Taking(p)
      PROVE  nextId'[th[p].id] = nextId[th[p].id]
  BY <1>2, <1>3 DEF IdInv, ListInv, ListIs, Listed
<1>. QED
  BY <1>1, <1>2, <1>3

LEMMA DieStep ==
  ASSUME IdInv, NEW o \in Owner, Die(o)
  PROVE  IdInv'
<1>1. PICK r : r = [th[o] EXCEPT !.at = "dying"]
  OBVIOUS
<1>2. th[o] \in Regs /\ th[o].at = "owner" /\ Held(o) /\ UNCHANGED <<num, available, mutex>>
  BY DEF Die, Held, IdInv, TypesInv
<1>3. r \in Regs /\ r.at = "dying" /\ r.id = th[o].id /\ r.next = th[o].next
  BY <1>1, <1>2 DEF Regs, Places
<1>4. th' \in [Owner -> Regs] /\ th'[o] = r /\ \A p \in Owner \ {o} : th'[p] = th[p]
  BY <1>1, <1>3, Goes DEF Die, IdInv
<1>5. \A p \in Owner : (Held(p) <=> Held(p)') /\ (Taking(p) <=> Taking(p)') /\ th'[p].id = th[p].id
  BY <1>2, <1>3, <1>4 DEF Held, Taking
<1>6. /\ nextId' \in [Id -> Ptr]
      /\ \A p \in Owner : Taking(p) => nextId'[th[p].id] = nextId[th[p].id]
      /\ \A n \in Nat : \A list \in [1 .. n -> Id] :
            ListIs(list, n) => \A k \in 1 .. n : nextId'[list[k]] = nextId[list[k]]
  BY <1>2, OwnNext DEF Die
<1>7. TypesInv'
  BY <1>2, <1>4, <1>5, <1>6 DEF IdInv, TypesInv
<1>8. MutexInv'
  BY <1>2, <1>3, <1>4, <1>5 DEF IdInv, MutexInv
<1>9. ReadInv'
  BY <1>3, <1>4, <1>6 DEF IdInv, ReadInv, Taking
<1>10. UniqueInv'
  BY <1>5, SameHolders DEF IdInv
<1>11. ListInv'
  <2>1. PICK n \in Nat : \E list \in [1 .. n -> Id] : ListIs(list, n)
    BY DEF IdInv, ListInv
  <2>2. PICK list \in [1 .. n -> Id] : ListIs(list, n)
    BY <2>1
  <2>. QED
    BY <1>2, <1>5, <1>6, <2>2, SameList
<1>. QED
  BY <1>7, <1>8, <1>9, <1>10, <1>11 DEF IdInv

\* The swap fails: the thread writes the first id of the list into its own again.
LEMMA GiveBackFails ==
  ASSUME IdInv, NEW o \in Owner, th[o].at = "dying",
         nextId' = [nextId EXCEPT ![th[o].id] = available],
         UNCHANGED <<num, available, mutex, th>>
  PROVE  IdInv'
<1>1. Held(o)
  BY DEF Held
<1>2. \A p \in Owner : (Held(p) <=> Held(p)') /\ (Taking(p) <=> Taking(p)') /\ th'[p].id = th[p].id
  BY DEF Held, Taking
<1>3. /\ nextId' \in [Id -> Ptr]
      /\ \A p \in Owner : Taking(p) => nextId'[th[p].id] = nextId[th[p].id]
      /\ \A n \in Nat : \A list \in [1 .. n -> Id] :
            ListIs(list, n) => \A k \in 1 .. n : nextId'[list[k]] = nextId[list[k]]
  BY <1>1, OwnNext
<1>4. TypesInv' /\ MutexInv'
  BY <1>2, <1>3 DEF IdInv, TypesInv, MutexInv
<1>5. ReadInv'
  BY <1>3 DEF IdInv, ReadInv, Taking
<1>6. UniqueInv'
  BY <1>2, SameHolders DEF IdInv
<1>7. ListInv'
  <2>1. PICK n \in Nat : \E list \in [1 .. n -> Id] : ListIs(list, n)
    BY DEF IdInv, ListInv
  <2>2. PICK list \in [1 .. n -> Id] : ListIs(list, n)
    BY <2>1
  <2>. QED
    BY <1>2, <1>3, <2>2, SameList
<1>. QED
  BY <1>4, <1>5, <1>6, <1>7 DEF IdInv

\* The swap succeeds: the id is the first of the list, whose rest is unchanged
\* even if others took from it and gave back in between.
LEMMA GiveBackWorks ==
  ASSUME IdInv, NEW o \in Owner, th[o].at = "dying",
         available = nextId[th[o].id], available' = th[o].id,
         Go(o, [at |-> "new", id |-> None, next |-> None]),
         UNCHANGED <<num, nextId, mutex>>
  PROVE  IdInv'
<1>1. PICK r : r = [at |-> "new", id |-> None, next |-> None]
  OBVIOUS
<1>2. th[o] \in Regs /\ Held(o) /\ ~ Taking(o) /\ th[o].id \in Id
  BY DEF Held, Taking, IdInv, TypesInv
<1>3. r \in Regs /\ r.at = "new"
  BY <1>1 DEF Regs, Places, Ptr
<1>4. th' \in [Owner -> Regs] /\ th'[o] = r /\ \A p \in Owner \ {o} : th'[p] = th[p]
  BY <1>1, <1>3, Goes DEF IdInv
<1>5. /\ \A p \in Owner \ {o} : (Held(p) <=> Held(p)') /\ th'[p].id = th[p].id
      /\ \A p \in Owner : Taking(p) <=> Taking(p)'
      /\ ~ Held(o)' /\ ~ Taking(o)'
  BY <1>2, <1>3, <1>4 DEF Held, Taking
<1>6. TypesInv'
  <2>1. available' \in Ptr
    BY <1>2 DEF Ptr
  <2>. QED
    BY <1>4, <1>5, <2>1 DEF IdInv, TypesInv
<1>7. MutexInv'
  BY <1>3, <1>4, <1>5 DEF IdInv, MutexInv
<1>8. ReadInv'
  BY <1>3, <1>4 DEF IdInv, ReadInv
<1>9. UniqueInv'
  BY <1>5 DEF IdInv, UniqueInv
<1>10. PICK n \in Nat : \E list \in [1 .. n -> Id] : ListIs(list, n)
  BY DEF IdInv, ListInv
<1>11. PICK list \in [1 .. n -> Id] : ListIs(list, n)
  BY <1>10
<1>12. PICK more : more = [k \in 1 .. n + 1 |-> IF k = 1 THEN th[o].id ELSE list[k - 1]]
  OBVIOUS
<1>13. /\ n + 1 \in Nat /\ 1 \in 1 .. n + 1 /\ more[1] = th[o].id
       /\ \A k \in 1 .. n + 1 : k # 1 => k - 1 \in 1 .. n /\ more[k] = list[k - 1]
       /\ \A k \in 1 .. n : k + 1 \in 1 .. n + 1 /\ k + 1 # 1 /\ list[k] = more[k + 1]
  BY <1>12
<1>14. more \in [1 .. n + 1 -> Id]
  <2>1. \A k \in 1 .. n + 1 : (IF k = 1 THEN th[o].id ELSE list[k - 1]) \in Id
    BY <1>2, <1>13
  <2>. QED
    BY <1>12, <2>1
<1>15. \A k \in 1 .. n : list[k] # th[o].id
  BY <1>2, <1>11 DEF ListIs, Apart
<1>16. /\ available = IF n = 0 THEN None ELSE list[1]
       /\ \A k \in 1 .. n : nextId[list[k]] = IF k = n THEN None ELSE list[k + 1]
       /\ \A k, m \in 1 .. n : list[k] = list[m] => k = m
  BY <1>11 DEF ListIs, Lists
<1>17. Lists(more, n + 1)'
  <2>1. available' = IF n + 1 = 0 THEN None ELSE more[1]
    BY <1>13
  <2>2. ASSUME NEW k \in 1 .. n + 1
        PROVE  nextId'[more[k]] = IF k = n + 1 THEN None ELSE more[k + 1]
    <3>1. CASE k = 1
      <4>1. nextId[more[k]] = IF n = 0 THEN None ELSE list[1]
        BY <1>13, <1>16, <3>1
      <4>2. n # 0 => list[1] = more[2]
        BY <1>13
      <4>. QED
        BY <3>1, <4>1, <4>2
    <3>2. CASE k # 1
      <4>1. k - 1 \in 1 .. n /\ more[k] = list[k - 1] /\ (k - 1) + 1 = k
        BY <1>13, <3>2
      <4>2. nextId[more[k]] = IF k - 1 = n THEN None ELSE list[k]
        BY <1>16, <4>1
      <4>3. k - 1 # n => list[k] = more[k + 1]
        BY <1>13, <4>1
      <4>. QED
        BY <4>1, <4>2, <4>3
    <3>. QED
      BY <3>1, <3>2
  <2>3. \A k, m \in 1 .. n + 1 : more[k] = more[m] => k = m
    BY <1>13, <1>15, <1>16
  <2>. QED
    BY <2>1, <2>2, <2>3 DEF Lists
<1>18. Counted(more, n + 1)'
  <2>1. SUFFICES ASSUME NEW x \in Id
                 PROVE  x < num' <=> \/ \E k \in 1 .. n + 1 : more[k] = x
                                     \/ \E p \in Owner : Held(p)' /\ th'[p].id = x
    BY DEF Counted
  <2>2. x < num <=> \/ \E k \in 1 .. n : list[k] = x
                    \/ \E p \in Owner : Held(p) /\ th[p].id = x
    BY <1>11 DEF ListIs, Counted
  <2>3. CASE x = th[o].id
    BY <1>2, <1>13, <2>2, <2>3
  <2>4. CASE x # th[o].id
    <3>1. (\E k \in 1 .. n : list[k] = x) <=> \E k \in 1 .. n + 1 : more[k] = x
      BY <1>13, <2>4
    <3>2. (\E p \in Owner : Held(p) /\ th[p].id = x) <=> \E p \in Owner : Held(p)' /\ th'[p].id = x
      BY <1>5, <2>4
    <3>. QED
      BY <2>2, <3>1, <3>2
  <2>. QED
    BY <2>3, <2>4
<1>19. Apart(more, n + 1)'
  <2>1. SUFFICES ASSUME NEW p \in Owner, Held(p)', NEW k \in 1 .. n + 1
                 PROVE  more[k] # th'[p].id
    BY DEF Apart
  <2>2. p # o /\ Held(p) /\ th'[p].id = th[p].id
    BY <1>5, <2>1
  <2>3. CASE k = 1
    BY <1>2, <1>13, <2>2, <2>3 DEF IdInv, UniqueInv
  <2>4. CASE k # 1
    BY <1>11, <1>13, <2>2, <2>4 DEF ListIs, Apart
  <2>. QED
    BY <2>3, <2>4
<1>20. Listed(more, n + 1)'
  <2>1. SUFFICES ASSUME NEW p \in Owner, Taking(p)'
                 PROVE  \E k \in 1 .. n + 1 : more[k] = th'[p].id
    BY DEF Listed
  <2>2. p # o /\ Taking(p) /\ th'[p].id = th[p].id
    BY <1>5, <2>1
  <2>3. \E k \in 1 .. n : list[k] = th[p].id
    BY <1>11, <2>2 DEF ListIs, Listed
  <2>. QED
    BY <1>13, <2>2, <2>3
<1>. QED
  BY <1>6, <1>7, <1>8, <1>9, <1>13, <1>14, <1>17, <1>18, <1>19, <1>20 DEF IdInv, ListInv, ListIs

-----------------------------------------------------------------------------
\* IdInv is inductive: the mutex keeps the list whole for the one that takes
\* from it (acquire), while others give back without it (relinquish).
THEOREM IdInvHolds == IdSpec => []IdInv
<1>1. IdInit => IdInv
  BY InitInv
<1>2. IdInv /\ [IdNext]_idVars => IdInv'
  <2>1. SUFFICES ASSUME IdInv, [IdNext]_idVars PROVE IdInv'
    OBVIOUS
  <2>2. CASE UNCHANGED idVars
    <3>1. \A p \in Owner : (Held(p) <=> Held(p)') /\ (Taking(p) <=> Taking(p)')
      BY <2>2 DEF idVars, Held, Taking
    <3>2. TypesInv' /\ MutexInv' /\ ReadInv' /\ UniqueInv'
      BY <2>1, <2>2, <3>1 DEF idVars, IdInv, TypesInv, MutexInv, ReadInv, UniqueInv
    <3>3. ListInv'
      BY <2>1, <2>2, <3>1, SameList DEF idVars, IdInv, ListInv
    <3>. QED
      BY <3>2, <3>3 DEF IdInv
  <2>3. CASE IdNext
    <3>1. PICK o \in Owner : \/ Look(o) \/ Lock(o) \/ ReadFirst(o) \/ ReadNext(o)
                             \/ SwapFirst(o) \/ Fresh(o) \/ Die(o) \/ GiveBack(o)
      BY <2>3 DEF IdNext
    <3>2. CASE SwapFirst(o)
      BY <2>1, <3>2, SwapTakes, SwapFails DEF SwapFirst
    <3>3. CASE GiveBack(o)
      BY <2>1, <3>3, GiveBackWorks, GiveBackFails DEF GiveBack
    <3>. QED
      BY <2>1, <3>1, <3>2, <3>3, LookStep, LockStep, ReadFirstStep, ReadNextStep, FreshStep, DieStep
  <2>. QED
    BY <2>1, <2>2, <2>3
<1>. QED
  BY <1>1, <1>2, PTL DEF IdSpec

\* Live threads have different ids, and each id below num_thread_ids is with
\* one of them or waits once in the list (thread_id_pool.h).
THEOREM IdsStayUniqueAndDense == IdSpec => []IdsUniqueAndDense
<1>1. IdInv => IdsUniqueAndDense
  BY InvImplies
<1>. QED
  BY <1>1, IdInvHolds, PTL
-----------------------------------------------------------------------------
\* The lists there may ever be, and where else a block may be.
AnyList == ({"local", "fetched"} \X ThreadId) \cup ({"global"} \X Nat)
Out == <<"out", 0>>
Uncut == <<"uncut", 0>>

\* A list's first block and its length, and what one leads to from the other: each block
\* is at one place, and its rank there is the number of blocks below it.
Layout(place, rank, nb, first, size, out, used) ==
    /\ place \in [Block -> AnyList \cup {Out, Uncut}] /\ rank \in [Block -> Nat]
    /\ nb \in [Block -> Block \cup {Nil}]
    /\ first \in [AnyList -> Block \cup {Nil}] /\ size \in [AnyList -> Nat]
    /\ \A b \in Block : place[b] \in AnyList =>
          /\ rank[b] < size[place[b]]
          /\ rank[b] = 0 => nb[b] = Nil
          /\ rank[b] # 0 => /\ nb[b] \in Block /\ place[nb[b]] = place[b]
                            /\ rank[nb[b]] = rank[b] - 1
    /\ \A b, c \in Block : place[b] \in AnyList /\ place[c] = place[b] /\ rank[c] = rank[b] => b = c
    /\ \A x \in AnyList : /\ size[x] = 0 => first[x] = Nil
                          /\ size[x] # 0 => /\ first[x] \in Block /\ place[first[x]] = x
                                            /\ rank[first[x]] = size[x] - 1
    /\ \A b \in Block : (b \in out <=> place[b] = Out) /\ (b \in used <=> place[b] # Uncut)

\* g is f with b at a.
Puts(f, a, b, g) == g = [f EXCEPT ![a] = b]

LEMMA BlockConstants ==
  /\ NumThreadIds \in Nat /\ MaxLists \in Nat /\ L \in Nat /\ L >= 2 /\ Nil \notin Block
  /\ Block \subseteq Nat /\ ThreadId = 0 .. NumThreadIds - 1
  /\ Out \notin AnyList /\ Uncut \notin AnyList /\ Out # Uncut
BY BlockAssumption DEF Block, ThreadId, Out, Uncut, AnyList

\* The block below the first of a list is its next.
LEMMA Below ==
  ASSUME NEW place, NEW rank, NEW nb, NEW first, NEW size, NEW out, NEW used,
         Layout(place, rank, nb, first, size, out, used), NEW x \in AnyList, size[x] # 0
  PROVE  /\ first[x] \in Block /\ place[first[x]] = x /\ rank[first[x]] = size[x] - 1
         /\ size[x] = 1 => nb[first[x]] = Nil
         /\ size[x] # 1 => /\ nb[first[x]] \in Block /\ place[nb[first[x]]] = x
                           /\ rank[nb[first[x]]] = size[x] - 2
<1>1. first[x] \in Block /\ place[first[x]] = x /\ rank[first[x]] = size[x] - 1 /\ size[x] \in Nat
  BY DEF Layout
<1>2. CASE size[x] = 1
  <2>1. rank[first[x]] = 0
    BY <1>1, <1>2
  <2>. QED
    BY <1>1, <1>2, <2>1 DEF Layout
<1>3. CASE size[x] # 1
  <2>1. rank[first[x]] # 0 /\ rank[first[x]] - 1 = size[x] - 2
    BY <1>1, <1>3
  <2>. QED
    BY <1>1, <1>3, <2>1 DEF Layout
<1>. QED
  BY <1>1, <1>2, <1>3

\* A list gives away its first block.
LEMMA PopLayout ==
  ASSUME NEW place, NEW rank, NEW nb, NEW first, NEW size, NEW out, NEW used,
         Layout(place, rank, nb, first, size, out, used), NEW x \in AnyList, size[x] # 0,
         NEW rest, rest = IF size[x] = 1 THEN Nil ELSE nb[first[x]],
         NEW h, h = first[x], NEW p, Puts(place, h, Out, p), NEW n, Puts(nb, h, Nil, n),
         NEW f, Puts(first, x, rest, f), NEW s, Puts(size, x, size[x] - 1, s)
  PROVE  Layout(p, rank, n, f, s, out \cup {h}, used)
<1>0. Out \notin AnyList /\ Out # Uncut /\ Nil \notin Block
  BY BlockConstants
<1>1. /\ h \in Block /\ place[h] = x /\ rank[h] = size[x] - 1 /\ size[x] \in Nat
      /\ size[x] = 1 => rest = Nil
      /\ size[x] # 1 => rest \in Block /\ place[rest] = x /\ rank[rest] = size[x] - 2
  BY Below DEF Layout, Puts
<1>2. /\ p \in [Block -> AnyList \cup {Out, Uncut}] /\ n \in [Block -> Block \cup {Nil}]
      /\ rank \in [Block -> Nat] /\ f \in [AnyList -> Block \cup {Nil}] /\ s \in [AnyList -> Nat]
  BY <1>1 DEF Layout, Puts
<1>3. /\ p[h] = Out /\ \A b \in Block : b # h => p[b] = place[b]
      /\ n[h] = Nil /\ \A b \in Block : b # h => n[b] = nb[b]
      /\ f[x] = rest /\ \A y \in AnyList : y # x => f[y] = first[y]
      /\ s[x] = size[x] - 1 /\ \A y \in AnyList : y # x => s[y] = size[y]
  BY <1>1 DEF Layout, Puts
<1>4. ASSUME NEW b \in Block, p[b] \in AnyList
      PROVE  /\ b # h /\ p[b] = place[b] /\ n[b] = nb[b] /\ rank[b] < s[p[b]]
             /\ rank[b] = 0 => n[b] = Nil
             /\ rank[b] # 0 => n[b] \in Block /\ p[n[b]] = p[b] /\ rank[n[b]] = rank[b] - 1
  <2>1. b # h /\ p[b] = place[b] /\ n[b] = nb[b]
    BY <1>0, <1>3, <1>4
  <2>2. rank[b] < s[p[b]]
    <3>1. rank[b] < size[place[b]] /\ rank[b] \in Nat
      BY <1>4, <2>1 DEF Layout
    <3>2. place[b] = x => rank[b] # size[x] - 1
      BY <1>1, <2>1 DEF Layout
    <3>. QED
      BY <1>1, <1>3, <1>4, <2>1, <3>1, <3>2
  <2>3. rank[b] # 0 => nb[b] # h
    <3>1. SUFFICES ASSUME rank[b] # 0, nb[b] = h PROVE FALSE
      OBVIOUS
    <3>2. place[b] = x /\ rank[h] = rank[b] - 1 /\ rank[b] < size[x] /\ rank[b] \in Nat
      BY <1>1, <1>4, <2>1, <3>1 DEF Layout
    <3>. QED
      BY <1>1, <3>2
  <2>. QED
    BY <1>3, <1>4, <2>1, <2>2, <2>3 DEF Layout
<1>5. \A b, c \in Block : p[b] \in AnyList /\ p[c] = p[b] /\ rank[c] = rank[b] => b = c
  BY <1>4 DEF Layout
<1>6. ASSUME NEW y \in AnyList
      PROVE  /\ s[y] = 0 => f[y] = Nil
             /\ s[y] # 0 => f[y] \in Block /\ p[f[y]] = y /\ rank[f[y]] = s[y] - 1
  <2>1. CASE y = x
    <3>1. s[y] = 0 => size[x] = 1
      BY <1>1, <1>3, <2>1
    <3>2. s[y] # 0 => size[x] # 1 /\ rest # h /\ rank[rest] = s[y] - 1
      BY <1>1, <1>3, <2>1
    <3>. QED
      BY <1>1, <1>3, <2>1, <3>1, <3>2
  <2>2. CASE y # x
    <3>1. f[y] = first[y] /\ s[y] = size[y] /\ (s[y] # 0 => first[y] # h)
      BY <1>1, <1>3, <2>2 DEF Layout
    <3>. QED
      BY <1>3, <3>1 DEF Layout
  <2>. QED
    BY <2>1, <2>2
<1>7. \A b \in Block : (b \in out \cup {h} <=> p[b] = Out) /\ (b \in used <=> p[b] # Uncut)
  BY <1>0, <1>1, <1>3 DEF Layout, AnyList, Uncut
<1>8. Layout(p, rank, n, f, s, out \cup {h}, used)
  BY <1>2, <1>4, <1>5, <1>6, <1>7 DEF Layout
<1>. QED
  BY <1>8

\* A block that was handed out becomes the first of a list.
LEMMA PushLayout ==
  ASSUME NEW place, NEW rank, NEW nb, NEW first, NEW size, NEW out, NEW used,
         Layout(place, rank, nb, first, size, out, used), NEW x \in AnyList, NEW h \in Block, h \in out,
         NEW p, Puts(place, h, x, p), NEW r, Puts(rank, h, size[x], r), NEW n, Puts(nb, h, first[x], n),
         NEW f, Puts(first, x, h, f), NEW s, Puts(size, x, size[x] + 1, s)
  PROVE  Layout(p, r, n, f, s, out \ {h}, used)
<1>0. Out \notin AnyList /\ Uncut \notin AnyList /\ Out # Uncut /\ Nil \notin Block
  BY BlockConstants
<1>1. /\ place[h] = Out /\ size[x] \in Nat
      /\ size[x] = 0 => first[x] = Nil
      /\ size[x] # 0 => first[x] \in Block /\ place[first[x]] = x /\ rank[first[x]] = size[x] - 1
  BY DEF Layout, Puts
<1>2. /\ p \in [Block -> AnyList \cup {Out, Uncut}] /\ n \in [Block -> Block \cup {Nil}]
      /\ r \in [Block -> Nat] /\ f \in [AnyList -> Block \cup {Nil}] /\ s \in [AnyList -> Nat]
  BY <1>1 DEF Layout, Puts
<1>3. /\ p[h] = x /\ \A b \in Block : b # h => p[b] = place[b]
      /\ r[h] = size[x] /\ \A b \in Block : b # h => r[b] = rank[b]
      /\ n[h] = first[x] /\ \A b \in Block : b # h => n[b] = nb[b]
      /\ f[x] = h /\ \A y \in AnyList : y # x => f[y] = first[y]
      /\ s[x] = size[x] + 1 /\ \A y \in AnyList : y # x => s[y] = size[y]
  BY <1>1 DEF Layout, Puts
<1>4. ASSUME NEW b \in Block, b # h, place[b] \in AnyList
      PROVE  /\ p[b] = place[b] /\ n[b] = nb[b] /\ r[b] = rank[b]
             /\ r[b] < s[p[b]] /\ r[b] < size[place[b]]
             /\ r[b] = 0 => n[b] = Nil
             /\ r[b] # 0 => n[b] \in Block /\ p[n[b]] = p[b] /\ r[n[b]] = r[b] - 1
  <2>1. p[b] = place[b] /\ n[b] = nb[b] /\ r[b] = rank[b]
    BY <1>3, <1>4
  <2>2. rank[b] < size[place[b]] /\ rank[b] \in Nat /\ size[place[b]] \in Nat
    BY <1>4 DEF Layout
  <2>3. s[place[b]] = size[place[b]] \/ s[place[b]] = size[place[b]] + 1
    BY <1>3, <1>4
  <2>4. rank[b] # 0 => nb[b] # h
    BY <1>0, <1>1, <1>4 DEF Layout
  <2>5. rank[b] < s[place[b]]
    BY <2>2, <2>3
  <2>. QED
    BY <1>3, <1>4, <2>1, <2>2, <2>4, <2>5 DEF Layout
<1>5. /\ r[h] < s[p[h]]
      /\ r[h] = 0 => n[h] = Nil
      /\ r[h] # 0 => n[h] \in Block /\ p[n[h]] = p[h] /\ r[n[h]] = r[h] - 1
  <2>1. size[x] # 0 => first[x] # h
    BY <1>0, <1>1
  <2>. QED
    BY <1>1, <1>3, <2>1
<1>6. ASSUME NEW b \in Block, NEW c \in Block, p[b] \in AnyList, p[c] = p[b], r[c] = r[b] PROVE b = c
  <2>1. \A d \in Block : p[d] = x /\ d # h => r[d] # r[h]
    <3>1. SUFFICES ASSUME NEW d \in Block, p[d] = x, d # h PROVE r[d] # r[h]
      OBVIOUS
    <3>2. place[d] = x
      BY <1>3, <3>1
    <3>3. r[d] < size[x] /\ r[d] \in Nat
      BY <1>2, <1>4, <3>1, <3>2
    <3>. QED
      BY <1>1, <1>3, <3>3
  <2>2. CASE b = h \/ c = h
    BY <1>3, <1>6, <2>1, <2>2
  <2>3. CASE b # h /\ c # h
    <3>1. p[b] = place[b] /\ p[c] = place[c] /\ r[b] = rank[b] /\ r[c] = rank[c]
      BY <1>3, <2>3
    <3>. QED
      BY <1>6, <3>1 DEF Layout
  <2>. QED
    BY <2>2, <2>3
<1>7. ASSUME NEW y \in AnyList
      PROVE  /\ s[y] = 0 => f[y] = Nil
             /\ s[y] # 0 => f[y] \in Block /\ p[f[y]] = y /\ r[f[y]] = s[y] - 1
  <2>1. CASE y = x
    BY <1>1, <1>3, <2>1
  <2>2. CASE y # x
    <3>1. f[y] = first[y] /\ s[y] = size[y] /\ (s[y] # 0 => first[y] # h)
      BY <1>0, <1>1, <1>3, <2>2 DEF Layout
    <3>. QED
      BY <1>3, <3>1 DEF Layout
  <2>. QED
    BY <2>1, <2>2
<1>8. \A b \in Block : (b \in out \ {h} <=> p[b] = Out) /\ (b \in used <=> p[b] # Uncut)
  BY <1>0, <1>1, <1>3 DEF Layout
<1>9. \A b \in Block : p[b] \in AnyList => b = h \/ place[b] \in AnyList
  BY <1>3
<1>10. \A b \in Block : p[b] \in AnyList =>
          /\ r[b] < s[p[b]]
          /\ r[b] = 0 => n[b] = Nil
          /\ r[b] # 0 => n[b] \in Block /\ p[n[b]] = p[b] /\ r[n[b]] = r[b] - 1
  BY <1>4, <1>5, <1>9
<1>11. Layout(p, r, n, f, s, out \ {h}, used)
  BY <1>2, <1>6, <1>7, <1>8, <1>10 DEF Layout
<1>. QED
  BY <1>11

Moves(place, x, y, p) == p = [b \in Block |-> IF place[b] = x THEN y ELSE place[b]]

\* A whole list becomes another one, empty before.
LEMMA MoveLayout ==
  ASSUME NEW place, NEW rank, NEW nb, NEW first, NEW size, NEW out, NEW used,
         Layout(place, rank, nb, first, size, out, used), 
         NEW x \in AnyList, NEW y \in AnyList, x # y, size[x] # 0, size[y] = 0,
         NEW p, Moves(place, x, y, p),
         NEW g, Puts(first, x, Nil, g), NEW f, Puts(g, y, first[x], f),
         NEW t, Puts(size, x, 0, t), NEW s, Puts(t, y, size[x], s)
  PROVE  Layout(p, rank, nb, f, s, out, used)
<1>0. Out \notin AnyList /\ Uncut \notin AnyList /\ Out # Uncut /\ Nil \notin Block
  BY BlockConstants
<1>1. /\ first[x] \in Block /\ place[first[x]] = x /\ rank[first[x]] = size[x] - 1 /\ size[x] \in Nat
      /\ \A b \in Block : place[b] # y
  BY DEF Layout, Puts, Moves
<1>2. /\ p \in [Block -> AnyList \cup {Out, Uncut}] /\ nb \in [Block -> Block \cup {Nil}]
      /\ rank \in [Block -> Nat] /\ f \in [AnyList -> Block \cup {Nil}] /\ s \in [AnyList -> Nat]
  BY <1>1 DEF Layout, Puts, Moves
<1>3. /\ \A b \in Block : place[b] = x => p[b] = y
      /\ \A b \in Block : place[b] # x => p[b] = place[b]
      /\ f[x] = Nil /\ f[y] = first[x] /\ \A z \in AnyList : z # x /\ z # y => f[z] = first[z]
      /\ s[x] = 0 /\ s[y] = size[x] /\ \A z \in AnyList : z # x /\ z # y => s[z] = size[z]
  BY <1>1 DEF Layout, Puts, Moves
<1>4. \A b, c \in Block : p[b] = p[c] <=> place[b] = place[c]
  BY <1>1, <1>3
<1>5. ASSUME NEW b \in Block, p[b] \in AnyList
      PROVE  /\ rank[b] < s[p[b]]
             /\ rank[b] = 0 => nb[b] = Nil
             /\ rank[b] # 0 => nb[b] \in Block /\ p[nb[b]] = p[b] /\ rank[nb[b]] = rank[b] - 1
  <2>1. place[b] \in AnyList /\ s[p[b]] = size[place[b]]
    BY <1>1, <1>3, <1>5
  <2>. QED
    BY <1>4, <2>1 DEF Layout
<1>6. \A b, c \in Block : p[b] \in AnyList /\ p[c] = p[b] /\ rank[c] = rank[b] => b = c
  BY <1>3, <1>4 DEF Layout
<1>7. ASSUME NEW z \in AnyList
      PROVE  /\ s[z] = 0 => f[z] = Nil
             /\ s[z] # 0 => f[z] \in Block /\ p[f[z]] = z /\ rank[f[z]] = s[z] - 1
  <2>1. CASE z = x
    BY <1>3, <2>1
  <2>2. CASE z = y
    BY <1>1, <1>3, <2>2
  <2>3. CASE z # x /\ z # y
    BY <1>3, <2>3 DEF Layout
  <2>. QED
    BY <2>1, <2>2, <2>3
<1>8. \A b \in Block : (b \in out <=> p[b] = Out) /\ (b \in used <=> p[b] # Uncut)
  BY <1>0, <1>3 DEF Layout
<1>9. Layout(p, rank, nb, f, s, out, used)
  BY <1>2, <1>5, <1>6, <1>7, <1>8 DEF Layout
<1>. QED
  BY <1>9

Splits(place, rank, x, y, k, p, r) ==
    /\ p = [b \in Block |-> IF place[b] = x /\ rank[b] < k THEN y ELSE place[b]]
    /\ r = [b \in Block |-> IF place[b] = x /\ ~ (rank[b] < k) THEN rank[b] - k ELSE rank[b]]

\* The k last blocks of a list become another one, empty before; m is the block above them.
LEMMA SplitLayout ==
  ASSUME NEW place, NEW rank, NEW nb, NEW first, NEW size, NEW out, NEW used,
         Layout(place, rank, nb, first, size, out, used), 
         NEW x \in AnyList, NEW y \in AnyList, x # y, size[y] = 0,
         NEW m \in Block, NEW k \in Nat \ {0}, place[m] = x, rank[m] = k,
         NEW p, NEW r, Splits(place, rank, x, y, k, p, r), NEW n, Puts(nb, m, Nil, n),
         NEW f, Puts(first, y, nb[m], f), NEW t, Puts(size, x, size[x] - k, t), NEW s, Puts(t, y, k, s)
  PROVE  Layout(p, r, n, f, s, out, used)
<1>0. Out \notin AnyList /\ Uncut \notin AnyList /\ Out # Uncut /\ Nil \notin Block
  BY BlockConstants
<1>1. /\ k < size[x] /\ size[x] \in Nat /\ \A b \in Block : place[b] # y /\ rank[b] \in Nat
      /\ first[x] \in Block /\ place[first[x]] = x /\ rank[first[x]] = size[x] - 1
      /\ nb[m] \in Block /\ place[nb[m]] = x /\ rank[nb[m]] = k - 1
  <2>1. k < size[x] /\ size[x] \in Nat /\ \A b \in Block : place[b] # y /\ rank[b] \in Nat
    BY DEF Layout, Puts, Splits
  <2>2. nb[m] \in Block /\ place[nb[m]] = x /\ rank[nb[m]] = k - 1
    BY DEF Layout, Puts, Splits
  <2>. QED
    BY <2>1, <2>2 DEF Layout, Puts, Splits
<1>2. /\ \A b \in Block : place[b] = x /\ rank[b] < k => p[b] = y /\ r[b] = rank[b]
      /\ \A b \in Block : place[b] = x /\ ~ (rank[b] < k) => p[b] = x /\ r[b] = rank[b] - k
      /\ \A b \in Block : place[b] # x => p[b] = place[b] /\ r[b] = rank[b]
      /\ n[m] = Nil /\ \A b \in Block : b # m => n[b] = nb[b]
      /\ f[y] = nb[m] /\ \A z \in AnyList : z # y => f[z] = first[z]
      /\ s[x] = size[x] - k /\ s[y] = k /\ \A z \in AnyList : z # x /\ z # y => s[z] = size[z]
  BY <1>1 DEF Layout, Puts, Splits
<1>3. /\ p \in [Block -> AnyList \cup {Out, Uncut}] /\ n \in [Block -> Block \cup {Nil}]
      /\ r \in [Block -> Nat] /\ f \in [AnyList -> Block \cup {Nil}] /\ s \in [AnyList -> Nat]
  <2>1. p \in [Block -> AnyList \cup {Out, Uncut}] /\ n \in [Block -> Block \cup {Nil}]
    BY DEF Layout, Puts, Splits
  <2>2. r \in [Block -> Nat]
    BY <1>1 DEF Layout, Puts, Splits
  <2>3. f \in [AnyList -> Block \cup {Nil}] /\ s \in [AnyList -> Nat]
    BY <1>1 DEF Layout, Puts, Splits
  <2>. QED
    BY <2>1, <2>2, <2>3
<1>4. ASSUME NEW b \in Block, p[b] \in AnyList
      PROVE  /\ r[b] < s[p[b]]
             /\ r[b] = 0 => n[b] = Nil
             /\ r[b] # 0 => n[b] \in Block /\ p[n[b]] = p[b] /\ r[n[b]] = r[b] - 1
  <2>0. rank[b] \in Nat /\ rank[m] = k
    BY <1>1
  <2>1. CASE place[b] = x /\ rank[b] < k
    <3>1. b # m /\ n[b] = nb[b] /\ p[b] = y /\ r[b] = rank[b]
      BY <1>2, <2>0, <2>1
    <3>2. rank[b] = 0 => nb[b] = Nil
      BY <2>1 DEF Layout
    <3>3. rank[b] # 0 => nb[b] \in Block /\ place[nb[b]] = x /\ rank[nb[b]] = rank[b] - 1 /\ rank[b] - 1 < k
      BY <2>0, <2>1 DEF Layout
    <3>. QED
      BY <1>2, <2>1, <3>1, <3>2, <3>3
  <2>2. CASE place[b] = x /\ ~ (rank[b] < k)
    <3>1. p[b] = x /\ r[b] = rank[b] - k /\ rank[b] < size[x]
      BY <1>2, <2>2 DEF Layout
    <3>2. r[b] = 0 <=> b = m
      <4>1. rank[b] = k => b = m
        BY <2>2 DEF Layout
      <4>. QED
        BY <2>0, <3>1, <4>1
    <3>3. b # m => nb[b] \in Block /\ place[nb[b]] = x /\ rank[nb[b]] = rank[b] - 1
      BY <2>0, <2>2, <3>1, <3>2 DEF Layout
    <3>4. b # m => ~ (rank[b] - 1 < k)
      BY <2>0, <2>2, <3>1, <3>2
    <3>5. b # m => n[b] \in Block /\ p[n[b]] = x /\ r[n[b]] = rank[b] - 1 - k
      BY <1>2, <3>3, <3>4
    <3>. QED
      BY <1>1, <1>2, <2>0, <3>1, <3>2, <3>5
  <2>3. CASE place[b] # x
    <3>1. b # m /\ p[b] = place[b] /\ r[b] = rank[b] /\ n[b] = nb[b]
      BY <1>2, <2>3
    <3>2. p[b] # x /\ p[b] # y
      BY <1>1, <2>3, <3>1
    <3>. QED
      BY <1>2, <1>4, <3>1, <3>2 DEF Layout
  <2>. QED
    BY <2>1, <2>2, <2>3
<1>5. ASSUME NEW b \in Block, NEW c \in Block, p[b] \in AnyList, p[c] = p[b], r[c] = r[b] PROVE b = c
  <2>1. /\ \A d \in Block : p[d] = x => place[d] = x /\ rank[d] = r[d] + k
        /\ \A d \in Block : p[d] = y => place[d] = x /\ rank[d] = r[d]
        /\ \A d \in Block : p[d] # x /\ p[d] # y => place[d] = p[d] /\ rank[d] = r[d]
    BY <1>1, <1>2
  <2>2. place[b] = place[c] /\ rank[b] = rank[c] /\ place[b] \in AnyList
    BY <1>5, <2>1
  <2>. QED
    BY <2>2 DEF Layout
<1>6. ASSUME NEW z \in AnyList
      PROVE  /\ s[z] = 0 => f[z] = Nil
             /\ s[z] # 0 => f[z] \in Block /\ p[f[z]] = z /\ r[f[z]] = s[z] - 1
  <2>1. CASE z = x
    <3>1. ~ (rank[first[x]] < k) /\ s[x] # 0
      BY <1>1, <1>2
    <3>. QED
      BY <1>1, <1>2, <2>1, <3>1
  <2>2. CASE z = y
    BY <1>1, <1>2, <2>2
  <2>3. CASE z # x /\ z # y
    BY <1>2, <2>3 DEF Layout
  <2>. QED
    BY <2>1, <2>2, <2>3
<1>7. \A b \in Block : (b \in out <=> p[b] = Out) /\ (b \in used <=> p[b] # Uncut)
  BY <1>0, <1>2 DEF Layout
<1>8. Layout(p, r, n, f, s, out, used)
  BY <1>3, <1>4, <1>5, <1>6, <1>7 DEF Layout
<1>. QED
  BY <1>8

Cuts(place, rank, nb, x, a, p, r, n) ==
    LET cut == a .. a + L - 1
    IN  /\ p = [b \in Block |-> IF b \in cut THEN x ELSE place[b]]
        /\ r = [b \in Block |-> IF b \in cut THEN a + L - 1 - b ELSE rank[b]]
        /\ n = [b \in Block |-> IF b \in cut THEN IF b + 1 \in cut THEN b + 1 ELSE Nil ELSE nb[b]]

\* A buffer that nobody used before becomes a list.
LEMMA CutLayout ==
  ASSUME NEW place, NEW rank, NEW nb, NEW first, NEW size, NEW out, NEW used,
         Layout(place, rank, nb, first, size, out, used), NEW x \in AnyList, size[x] = 0,
         NEW a \in Nat, NEW cut, cut = a .. a + L - 1, cut \subseteq Block, \A b \in cut : place[b] = Uncut,
         NEW p, NEW r, NEW n, Cuts(place, rank, nb, x, a, p, r, n),
         NEW f, Puts(first, x, a, f), NEW s, Puts(size, x, L, s)
  PROVE  Layout(p, r, n, f, s, out, used \cup cut)
<1>0. /\ Out \notin AnyList /\ Uncut \notin AnyList /\ Out # Uncut /\ Nil \notin Block
      /\ L \in Nat /\ L >= 2 /\ Block \subseteq Nat
  BY BlockConstants
<1>1. cut \subseteq Block /\ a \in cut /\ (\A b \in cut : place[b] = Uncut) /\ \A b \in Block : place[b] # x
  BY <1>0 DEF Layout, Puts, Cuts
<1>2. /\ \A b \in cut : /\ p[b] = x /\ r[b] = a + L - 1 - b /\ r[b] \in Nat
                        /\ n[b] = IF b + 1 \in cut THEN b + 1 ELSE Nil
      /\ \A b \in Block : b \notin cut => p[b] = place[b] /\ r[b] = rank[b] /\ n[b] = nb[b]
      /\ f[x] = a /\ \A z \in AnyList : z # x => f[z] = first[z]
      /\ s[x] = L /\ \A z \in AnyList : z # x => s[z] = size[z]
  BY <1>0, <1>1 DEF Layout, Puts, Cuts
<1>3. /\ p \in [Block -> AnyList \cup {Out, Uncut}] /\ n \in [Block -> Block \cup {Nil}]
      /\ r \in [Block -> Nat] /\ f \in [AnyList -> Block \cup {Nil}] /\ s \in [AnyList -> Nat]
  <2>1. p \in [Block -> AnyList \cup {Out, Uncut}] /\ n \in [Block -> Block \cup {Nil}]
    BY <1>1 DEF Layout, Puts, Cuts
  <2>2. r \in [Block -> Nat]
    BY <1>0, <1>2 DEF Layout, Puts, Cuts
  <2>3. f \in [AnyList -> Block \cup {Nil}] /\ s \in [AnyList -> Nat]
    BY <1>0, <1>1 DEF Layout, Puts, Cuts
  <2>. QED
    BY <2>1, <2>2, <2>3
<1>4. ASSUME NEW b \in Block, p[b] \in AnyList
      PROVE  /\ r[b] < s[p[b]]
             /\ r[b] = 0 => n[b] = Nil
             /\ r[b] # 0 => n[b] \in Block /\ p[n[b]] = p[b] /\ r[n[b]] = r[b] - 1
  <2>1. CASE b \in cut
    <3>1. b \in Nat /\ r[b] = a + L - 1 - b /\ p[b] = x /\ s[x] = L /\ (r[b] = 0 <=> b + 1 \notin cut)
      <4>1. b \in Nat /\ b + 1 \in Nat /\ a <= b /\ b <= a + L - 1
        BY <1>0, <1>1, <2>1
      <4>2. b + 1 \in cut <=> b # a + L - 1
        BY <1>0, <4>1
      <4>3. r[b] = a + L - 1 - b /\ p[b] = x /\ s[x] = L
        BY <1>2, <2>1
      <4>. QED
        BY <1>0, <4>1, <4>2, <4>3
    <3>2. n[b] = IF b + 1 \in cut THEN b + 1 ELSE Nil
      BY <1>2, <2>1
    <3>3. r[b] < s[p[b]]
      <4>1. a <= b
        BY <1>0, <2>1
      <4>. QED
        BY <1>0, <3>1, <4>1
    <3>4. r[b] = 0 => n[b] = Nil
      BY <3>1, <3>2
    <3>5. ASSUME r[b] # 0 PROVE n[b] \in Block /\ p[n[b]] = p[b] /\ r[n[b]] = r[b] - 1
      <4>1. b + 1 \in cut /\ n[b] = b + 1
        BY <3>1, <3>2, <3>5
      <4>2. p[b + 1] = x /\ r[b + 1] = a + L - 1 - (b + 1) /\ b + 1 \in Block
        BY <1>1, <1>2, <4>1
      <4>. QED
        BY <1>0, <3>1, <4>1, <4>2
    <3>. QED
      BY <3>3, <3>4, <3>5
  <2>2. CASE b \notin cut
    <3>1. p[b] = place[b] /\ r[b] = rank[b] /\ n[b] = nb[b] /\ place[b] # x
      BY <1>1, <1>2, <2>2
    <3>2. rank[b] # 0 => nb[b] \in Block /\ place[nb[b]] = place[b] /\ nb[b] \notin cut
      BY <1>0, <1>1, <1>4, <3>1 DEF Layout
    <3>. QED
      BY <1>2, <1>4, <3>1, <3>2 DEF Layout
  <2>. QED
    BY <2>1, <2>2
<1>5. ASSUME NEW b \in Block, NEW c \in Block, p[b] \in AnyList, p[c] = p[b], r[c] = r[b] PROVE b = c
  <2>1. CASE p[b] = x
    <3>1. b \in cut /\ c \in cut
      BY <1>1, <1>2, <1>5, <2>1
    <3>2. a + L - 1 - b = a + L - 1 - c /\ b \in Nat /\ c \in Nat
      BY <1>0, <1>2, <1>5, <3>1
    <3>. QED
      BY <1>0, <3>2
  <2>2. CASE p[b] # x
    <3>1. b \notin cut /\ c \notin cut
      BY <1>2, <1>5, <2>2
    <3>. QED
      BY <1>2, <1>5, <3>1 DEF Layout
  <2>. QED
    BY <2>1, <2>2
<1>6. ASSUME NEW z \in AnyList
      PROVE  /\ s[z] = 0 => f[z] = Nil
             /\ s[z] # 0 => f[z] \in Block /\ p[f[z]] = z /\ r[f[z]] = s[z] - 1
  <2>1. CASE z = x
    <3>1. r[a] = L - 1
      BY <1>0, <1>1, <1>2
    <3>. QED
      BY <1>0, <1>1, <1>2, <2>1, <3>1
  <2>2. CASE z # x
    <3>1. size[z] # 0 => first[z] \in Block /\ first[z] \notin cut
      BY <1>0, <1>1 DEF Layout
    <3>2. s[z] = size[z] /\ f[z] = first[z]
      BY <1>2, <2>2
    <3>3. size[z] # 0 => p[first[z]] = z /\ r[first[z]] = size[z] - 1
      <4>1. size[z] # 0 => place[first[z]] = z /\ rank[first[z]] = size[z] - 1
        BY DEF Layout
      <4>. QED
        BY <1>2, <3>1, <4>1
    <3>4. size[z] = 0 => first[z] = Nil
      BY DEF Layout
    <3>. QED
      BY <3>1, <3>2, <3>3, <3>4
  <2>. QED
    BY <2>1, <2>2
<1>7. \A b \in Block : (b \in out <=> p[b] = Out) /\ (b \in used \cup cut <=> p[b] # Uncut)
  BY <1>0, <1>1, <1>2 DEF Layout
<1>8. Layout(p, r, n, f, s, out, used \cup cut)
  BY <1>3, <1>4, <1>5, <1>6, <1>7 DEF Layout
<1>. QED
  BY <1>8

LocalList(o) == <<"local", o>>
FetchedList(o) == <<"fetched", o>>
StackList(d) == <<"global", d>>

\* The first block and the length of every list; those of the stack are numbered from its bottom.
FirstsOf(loc, fet, glo) ==
    [x \in AnyList |-> IF x[1] = "local" THEN loc[x[2]].head
                       ELSE IF x[1] = "fetched" THEN fet[x[2]]
                       ELSE IF x[2] \in 1 .. Len(glo) THEN glo[Len(glo) + 1 - x[2]] ELSE Nil]
SizesOf(loc, fet, glo) ==
    [x \in AnyList |-> IF x[1] = "local" THEN loc[x[2]].sz
                       ELSE IF x[1] = "fetched" THEN IF fet[x[2]] = Nil THEN 0 ELSE L
                       ELSE IF x[2] \in 1 .. Len(glo) THEN L ELSE 0]

Records == [sz : 0 .. 2 * L, head : Block \cup {Nil}, mid : Block \cup {Nil}]

BlockTypes ==
    /\ nextBlock \in [Block -> Block \cup {Nil}]
    /\ local \in [ThreadId -> Records]
    /\ global \in Seq(Block) /\ buffers \in 0 .. MaxLists
    /\ held \subseteq Block /\ fetched \in [ThreadId -> Block \cup {Nil}]

\* The remembered block of a list longer than L + 1 is the one above L others.
Mids(loc, place, rank) ==
    \A o \in ThreadId : loc[o].sz > L + 1 =>
        loc[o].mid \in Block /\ place[loc[o].mid] = LocalList(o) /\ rank[loc[o].mid] = L

Laid(place, rank, nb, loc, fet, glo, out, used) ==
    /\ Layout(place, rank, nb, FirstsOf(loc, fet, glo), SizesOf(loc, fet, glo), out, used)
    /\ Mids(loc, place, rank)

BlockInv == /\ BlockTypes
            /\ \E place, rank : Laid(place, rank, nextBlock, local, fetched, global, held, 0 .. buffers * L - 1)
-----------------------------------------------------------------------------
LEMMA AnyLists ==
  /\ \A o \in ThreadId : LocalList(o) \in AnyList /\ FetchedList(o) \in AnyList
  /\ \A d \in Nat : StackList(d) \in AnyList
  /\ \A x \in AnyList : \/ \E o \in ThreadId : x = LocalList(o)
                        \/ \E o \in ThreadId : x = FetchedList(o)
                        \/ \E d \in Nat : x = StackList(d)
  /\ \A o, u \in ThreadId : /\ LocalList(o) = LocalList(u) => o = u
                            /\ FetchedList(o) = FetchedList(u) => o = u
                            /\ LocalList(o) # FetchedList(u)
  /\ \A d, e \in Nat : StackList(d) = StackList(e) => d = e
  /\ \A d \in Nat, o \in ThreadId : StackList(d) # LocalList(o) /\ StackList(d) # FetchedList(o)
BY DEF AnyList, LocalList, FetchedList, StackList

LEMMA LocalFirst ==
  ASSUME NEW loc, NEW fet, NEW glo
  PROVE  \A o \in ThreadId : FirstsOf(loc, fet, glo)[LocalList(o)] = loc[o].head
BY AnyLists DEF FirstsOf, SizesOf, LocalList, FetchedList, StackList

LEMMA LocalSize ==
  ASSUME NEW loc, NEW fet, NEW glo
  PROVE  \A o \in ThreadId : SizesOf(loc, fet, glo)[LocalList(o)] = loc[o].sz
BY AnyLists DEF FirstsOf, SizesOf, LocalList, FetchedList, StackList

LEMMA FetchedFirst ==
  ASSUME NEW loc, NEW fet, NEW glo
  PROVE  \A o \in ThreadId : FirstsOf(loc, fet, glo)[FetchedList(o)] = fet[o]
BY AnyLists DEF FirstsOf, SizesOf, LocalList, FetchedList, StackList

LEMMA FetchedSize ==
  ASSUME NEW loc, NEW fet, NEW glo
  PROVE  \A o \in ThreadId : SizesOf(loc, fet, glo)[FetchedList(o)] = IF fet[o] = Nil THEN 0 ELSE L
BY AnyLists DEF FirstsOf, SizesOf, LocalList, FetchedList, StackList

LEMMA StackFirst ==
  ASSUME NEW loc, NEW fet, NEW glo
  PROVE  \A d \in Nat : FirstsOf(loc, fet, glo)[StackList(d)] =
                        IF d \in 1 .. Len(glo) THEN glo[Len(glo) + 1 - d] ELSE Nil
BY AnyLists DEF FirstsOf, SizesOf, LocalList, FetchedList, StackList

LEMMA StackSize ==
  ASSUME NEW loc, NEW fet, NEW glo
  PROVE  \A d \in Nat : SizesOf(loc, fet, glo)[StackList(d)] = IF d \in 1 .. Len(glo) THEN L ELSE 0
BY AnyLists DEF FirstsOf, SizesOf, LocalList, FetchedList, StackList

LEMMA AllEnds ==
  ASSUME NEW loc, NEW fet, NEW glo
  PROVE  /\ FirstsOf(loc, fet, glo) = [x \in AnyList |-> FirstsOf(loc, fet, glo)[x]]
         /\ SizesOf(loc, fet, glo) = [x \in AnyList |-> SizesOf(loc, fet, glo)[x]]
BY DEF FirstsOf, SizesOf

\* Two assignments to all lists are the same when they are for each kind.
LEMMA SameLists ==
  ASSUME NEW f, NEW g,
         \A o \in ThreadId : f[LocalList(o)] = g[LocalList(o)],
         \A o \in ThreadId : f[FetchedList(o)] = g[FetchedList(o)],
         \A d \in Nat : f[StackList(d)] = g[StackList(d)]
  PROVE  \A x \in AnyList : f[x] = g[x]
<1>1. SUFFICES ASSUME NEW x \in AnyList PROVE f[x] = g[x]
  OBVIOUS
<1>2. CASE \E o \in ThreadId : x = LocalList(o)
  BY <1>2
<1>3. CASE \E o \in ThreadId : x = FetchedList(o)
  BY <1>3
<1>4. CASE \E d \in Nat : x = StackList(d)
  BY <1>4
<1>. QED
  BY <1>2, <1>3, <1>4, AnyLists

LEMMA LocalChange ==
  ASSUME NEW loc, NEW fet, NEW glo, NEW o \in ThreadId, NEW l, DOMAIN loc = ThreadId, NEW new, Puts(loc, o, l, new)
  PROVE  /\ Puts(FirstsOf(loc, fet, glo), LocalList(o), l.head, FirstsOf(new, fet, glo))
         /\ Puts(SizesOf(loc, fet, glo), LocalList(o), l.sz, SizesOf(new, fet, glo))
<1>1. new = [loc EXCEPT ![o] = l]
  BY DEF Puts
<1>2. new[o] = l /\ \A u \in ThreadId : u # o => new[u] = loc[u]
  BY <1>1
<1>3. LocalList(o) \in AnyList
  BY AnyLists
<1>4. PICK f, g, s, t : /\ f = FirstsOf(loc, fet, glo) /\ g = FirstsOf(new, fet, glo)
                        /\ s = SizesOf(loc, fet, glo) /\ t = SizesOf(new, fet, glo)
  OBVIOUS
<1>5. /\ f = [x \in AnyList |-> f[x]] /\ g = [x \in AnyList |-> g[x]]
      /\ s = [x \in AnyList |-> s[x]] /\ t = [x \in AnyList |-> t[x]]
  BY <1>4, AllEnds
<1>6. /\ \A u \in ThreadId : /\ f[LocalList(u)] = loc[u].head /\ g[LocalList(u)] = new[u].head
                             /\ s[LocalList(u)] = loc[u].sz /\ t[LocalList(u)] = new[u].sz
                             /\ f[FetchedList(u)] = g[FetchedList(u)]
                             /\ s[FetchedList(u)] = t[FetchedList(u)]
      /\ \A d \in Nat : f[StackList(d)] = g[StackList(d)] /\ s[StackList(d)] = t[StackList(d)]
  <2>1. \A u \in ThreadId : f[LocalList(u)] = loc[u].head /\ g[LocalList(u)] = new[u].head
    BY <1>4, LocalFirst, LocalSize
  <2>2. \A u \in ThreadId : s[LocalList(u)] = loc[u].sz /\ t[LocalList(u)] = new[u].sz
    BY <1>4, LocalFirst, LocalSize
  <2>3. \A u \in ThreadId : f[FetchedList(u)] = g[FetchedList(u)]
    BY <1>4, FetchedFirst, FetchedSize
  <2>4. \A u \in ThreadId : s[FetchedList(u)] = t[FetchedList(u)]
    BY <1>4, FetchedFirst, FetchedSize
  <2>5. \A d \in Nat : f[StackList(d)] = g[StackList(d)]
    BY <1>4, StackFirst, StackSize
  <2>6. \A d \in Nat : s[StackList(d)] = t[StackList(d)]
    BY <1>4, StackFirst, StackSize
  <2>. QED
    BY <2>1, <2>2, <2>3, <2>4, <2>5, <2>6
<1>7. PICK h, r : h = [f EXCEPT ![LocalList(o)] = l.head] /\ r = [s EXCEPT ![LocalList(o)] = l.sz]
  OBVIOUS
<1>8. /\ h = [x \in AnyList |-> h[x]] /\ r = [x \in AnyList |-> r[x]]
      /\ h[LocalList(o)] = l.head /\ r[LocalList(o)] = l.sz
      /\ \A x \in AnyList : x # LocalList(o) => h[x] = f[x] /\ r[x] = s[x]
  BY <1>3, <1>5, <1>7
<1>9. /\ \A u \in ThreadId : g[LocalList(u)] = h[LocalList(u)] /\ t[LocalList(u)] = r[LocalList(u)]
      /\ \A u \in ThreadId : g[FetchedList(u)] = h[FetchedList(u)] /\ t[FetchedList(u)] = r[FetchedList(u)]
      /\ \A d \in Nat : g[StackList(d)] = h[StackList(d)] /\ t[StackList(d)] = r[StackList(d)]
  <2>1. ASSUME NEW u \in ThreadId
        PROVE  g[LocalList(u)] = h[LocalList(u)] /\ t[LocalList(u)] = r[LocalList(u)]
    <3>1. u # o => LocalList(u) # LocalList(o) /\ LocalList(u) \in AnyList
      BY AnyLists
    <3>2. CASE u = o
      BY <1>2, <1>6, <1>8, <3>2
    <3>3. CASE u # o
      <4>1. new[u] = loc[u]
        BY <1>2, <3>3
      <4>2. h[LocalList(u)] = f[LocalList(u)] /\ r[LocalList(u)] = s[LocalList(u)]
        BY <1>8, <3>1, <3>3
      <4>. QED
        BY <1>6, <4>1, <4>2
    <3>. QED
      BY <3>2, <3>3
  <2>2. \A u \in ThreadId : FetchedList(u) # LocalList(o) /\ FetchedList(u) \in AnyList
    BY AnyLists
  <2>3. \A d \in Nat : StackList(d) # LocalList(o) /\ StackList(d) \in AnyList
    BY AnyLists
  <2>. QED
    BY <1>6, <1>8, <2>1, <2>2, <2>3
<1>10. g = h
  <2>1. \A x \in AnyList : g[x] = h[x]
    BY <1>9, SameLists
  <2>. QED
    BY <1>5, <1>8, <2>1
<1>11. t = r
  <2>1. \A x \in AnyList : t[x] = r[x]
    BY <1>9, SameLists
  <2>. QED
    BY <1>5, <1>8, <2>1
<1>. QED
  BY <1>4, <1>7, <1>10, <1>11 DEF Puts

LEMMA FetchedChange ==
  ASSUME NEW loc, NEW fet, NEW glo, NEW o \in ThreadId, NEW v, DOMAIN fet = ThreadId, NEW new, Puts(fet, o, v, new),
         NEW z, z = IF v = Nil THEN 0 ELSE L
  PROVE  /\ Puts(FirstsOf(loc, fet, glo), FetchedList(o), v, FirstsOf(loc, new, glo))
         /\ Puts(SizesOf(loc, fet, glo), FetchedList(o), z, SizesOf(loc, new, glo))
<1>1. new = [fet EXCEPT ![o] = v]
  BY DEF Puts
<1>2. new[o] = v /\ \A u \in ThreadId : u # o => new[u] = fet[u]
  BY <1>1
<1>3. FetchedList(o) \in AnyList
  BY AnyLists
<1>4. PICK f, g, s, t : /\ f = FirstsOf(loc, fet, glo) /\ g = FirstsOf(loc, new, glo)
                           /\ s = SizesOf(loc, fet, glo) /\ t = SizesOf(loc, new, glo)
  OBVIOUS
<1>5. /\ f = [x \in AnyList |-> f[x]] /\ g = [x \in AnyList |-> g[x]]
      /\ s = [x \in AnyList |-> s[x]] /\ t = [x \in AnyList |-> t[x]]
  BY <1>4, AllEnds
<1>6. /\ \A u \in ThreadId : /\ f[FetchedList(u)] = fet[u] /\ g[FetchedList(u)] = new[u]
                             /\ s[FetchedList(u)] = IF fet[u] = Nil THEN 0 ELSE L
                             /\ t[FetchedList(u)] = IF new[u] = Nil THEN 0 ELSE L
                             /\ f[LocalList(u)] = g[LocalList(u)]
                             /\ s[LocalList(u)] = t[LocalList(u)]
      /\ \A d \in Nat : f[StackList(d)] = g[StackList(d)] /\ s[StackList(d)] = t[StackList(d)]
  <2>1. \A u \in ThreadId : f[FetchedList(u)] = fet[u] /\ g[FetchedList(u)] = new[u]
    BY <1>4, FetchedFirst, FetchedSize
  <2>2. \A u \in ThreadId : s[FetchedList(u)] = IF fet[u] = Nil THEN 0 ELSE L
    BY <1>4, FetchedFirst, FetchedSize
  <2>3. \A u \in ThreadId : t[FetchedList(u)] = IF new[u] = Nil THEN 0 ELSE L
    BY <1>4, FetchedFirst, FetchedSize
  <2>4. \A u \in ThreadId : f[LocalList(u)] = g[LocalList(u)]
    BY <1>4, LocalFirst, LocalSize
  <2>5. \A u \in ThreadId : s[LocalList(u)] = t[LocalList(u)]
    BY <1>4, LocalFirst, LocalSize
  <2>6. \A d \in Nat : f[StackList(d)] = g[StackList(d)]
    BY <1>4, StackFirst, StackSize
  <2>7. \A d \in Nat : s[StackList(d)] = t[StackList(d)]
    BY <1>4, StackFirst, StackSize
  <2>. QED
    BY <2>1, <2>2, <2>3, <2>4, <2>5, <2>6, <2>7
<1>7. PICK h, r : h = [f EXCEPT ![FetchedList(o)] = v] /\ r = [s EXCEPT ![FetchedList(o)] = z]
  OBVIOUS
<1>8. /\ h = [x \in AnyList |-> h[x]] /\ r = [x \in AnyList |-> r[x]]
      /\ h[FetchedList(o)] = v /\ r[FetchedList(o)] = z
      /\ \A x \in AnyList : x # FetchedList(o) => h[x] = f[x] /\ r[x] = s[x]
  BY <1>3, <1>5, <1>7
<1>9. /\ \A u \in ThreadId : g[LocalList(u)] = h[LocalList(u)] /\ t[LocalList(u)] = r[LocalList(u)]
      /\ \A u \in ThreadId : g[FetchedList(u)] = h[FetchedList(u)] /\ t[FetchedList(u)] = r[FetchedList(u)]
      /\ \A d \in Nat : g[StackList(d)] = h[StackList(d)] /\ t[StackList(d)] = r[StackList(d)]
  <2>1. ASSUME NEW u \in ThreadId
        PROVE  g[FetchedList(u)] = h[FetchedList(u)] /\ t[FetchedList(u)] = r[FetchedList(u)]
    <3>1. u # o => FetchedList(u) # FetchedList(o) /\ FetchedList(u) \in AnyList
      BY AnyLists
    <3>2. CASE u = o
      <4>1. g[FetchedList(u)] = new[u] /\ t[FetchedList(u)] = IF new[u] = Nil THEN 0 ELSE L
        BY <1>6
      <4>. QED
        BY <1>2, <1>4, <1>8, <3>2, <4>1
    <3>3. CASE u # o
      <4>1. new[u] = fet[u]
        BY <1>2, <3>3
      <4>2. h[FetchedList(u)] = f[FetchedList(u)] /\ r[FetchedList(u)] = s[FetchedList(u)]
        BY <1>8, <3>1, <3>3
      <4>3. g[FetchedList(u)] = f[FetchedList(u)] /\ t[FetchedList(u)] = s[FetchedList(u)]
        BY <1>6, <4>1
      <4>. QED
        BY <4>2, <4>3
    <3>. QED
      BY <3>2, <3>3
  <2>2. \A u \in ThreadId : LocalList(u) # FetchedList(o) /\ LocalList(u) \in AnyList
    BY AnyLists
  <2>3. \A d \in Nat : StackList(d) # FetchedList(o) /\ StackList(d) \in AnyList
    BY AnyLists
  <2>. QED
    BY <1>6, <1>8, <2>1, <2>2, <2>3
<1>10. g = h
  <2>1. \A x \in AnyList : g[x] = h[x]
    BY <1>9, SameLists
  <2>. QED
    BY <1>5, <1>8, <2>1
<1>11. t = r
  <2>1. \A x \in AnyList : t[x] = r[x]
    BY <1>9, SameLists
  <2>. QED
    BY <1>5, <1>8, <2>1
<1>. QED
  BY <1>4, <1>7, <1>10, <1>11 DEF Puts

\* A list on the stack more, or less.
LEMMA StackChange ==
  ASSUME NEW loc, NEW fet, NEW glo \in Seq(Block), NEW v \in Block, NEW new, new = <<v>> \o glo
  PROVE  /\ Puts(FirstsOf(loc, fet, glo), StackList(Len(glo) + 1), v, FirstsOf(loc, fet, new))
         /\ Puts(SizesOf(loc, fet, glo), StackList(Len(glo) + 1), L, SizesOf(loc, fet, new))
         /\ SizesOf(loc, fet, glo)[StackList(Len(glo) + 1)] = 0
         /\ StackList(Len(glo) + 1) \in AnyList /\ new \in Seq(Block)
<1>1. PICK top : top = StackList(Len(glo) + 1)
  OBVIOUS
<1>2. /\ Len(glo) \in Nat /\ new \in Seq(Block) /\ Len(new) = Len(glo) + 1 /\ new[1] = v
      /\ \A k \in 1 .. Len(glo) : new[k + 1] = glo[k]
  OBVIOUS
<1>3. top \in AnyList
  BY <1>1, <1>2, AnyLists
<1>4. PICK f, g, s, t : /\ f = FirstsOf(loc, fet, glo) /\ g = FirstsOf(loc, fet, new)
                        /\ s = SizesOf(loc, fet, glo) /\ t = SizesOf(loc, fet, new)
  OBVIOUS
<1>5. /\ f = [x \in AnyList |-> f[x]] /\ g = [x \in AnyList |-> g[x]]
      /\ s = [x \in AnyList |-> s[x]] /\ t = [x \in AnyList |-> t[x]]
  BY <1>4, AllEnds
<1>6. /\ \A u \in ThreadId : /\ f[FetchedList(u)] = g[FetchedList(u)] /\ s[FetchedList(u)] = t[FetchedList(u)]
                             /\ f[LocalList(u)] = g[LocalList(u)] /\ s[LocalList(u)] = t[LocalList(u)]
      /\ \A d \in Nat : /\ f[StackList(d)] = IF d \in 1 .. Len(glo) THEN glo[Len(glo) + 1 - d] ELSE Nil
                        /\ g[StackList(d)] = IF d \in 1 .. Len(new) THEN new[Len(new) + 1 - d] ELSE Nil
                        /\ s[StackList(d)] = IF d \in 1 .. Len(glo) THEN L ELSE 0
                        /\ t[StackList(d)] = IF d \in 1 .. Len(new) THEN L ELSE 0
  <2>1. \A u \in ThreadId : f[FetchedList(u)] = g[FetchedList(u)] /\ s[FetchedList(u)] = t[FetchedList(u)]
    BY <1>4, FetchedFirst, FetchedSize
  <2>2. \A u \in ThreadId : f[LocalList(u)] = g[LocalList(u)] /\ s[LocalList(u)] = t[LocalList(u)]
    BY <1>4, LocalFirst, LocalSize
  <2>3. \A d \in Nat : f[StackList(d)] = IF d \in 1 .. Len(glo) THEN glo[Len(glo) + 1 - d] ELSE Nil
    BY <1>4, StackFirst, StackSize
  <2>4. \A d \in Nat : g[StackList(d)] = IF d \in 1 .. Len(new) THEN new[Len(new) + 1 - d] ELSE Nil
    BY <1>4, StackFirst, StackSize
  <2>5. \A d \in Nat : s[StackList(d)] = IF d \in 1 .. Len(glo) THEN L ELSE 0
    BY <1>4, StackFirst, StackSize
  <2>6. \A d \in Nat : t[StackList(d)] = IF d \in 1 .. Len(new) THEN L ELSE 0
    BY <1>4, StackFirst, StackSize
  <2>. QED
    BY <2>1, <2>2, <2>3, <2>4, <2>5, <2>6
<1>7. PICK h, r : h = [f EXCEPT ![top] = v] /\ r = [s EXCEPT ![top] = L]
  OBVIOUS
<1>8. /\ h = [x \in AnyList |-> h[x]] /\ r = [x \in AnyList |-> r[x]]
      /\ h[top] = v /\ r[top] = L
      /\ \A x \in AnyList : x # top => h[x] = f[x] /\ r[x] = s[x]
  BY <1>3, <1>5, <1>7
<1>9. ASSUME NEW d \in Nat PROVE g[StackList(d)] = h[StackList(d)] /\ t[StackList(d)] = r[StackList(d)]
  <2>1. CASE d = Len(glo) + 1
    <3>1. d \in 1 .. Len(new) /\ Len(new) + 1 - d = 1
      BY <1>2, <2>1
    <3>. QED
      BY <1>1, <1>2, <1>6, <1>8, <2>1, <3>1
  <2>2. CASE d # Len(glo) + 1
    <3>1. StackList(d) \in AnyList /\ StackList(d) # top
      BY <1>1, <2>2, AnyLists
    <3>2. d \in 1 .. Len(glo) <=> d \in 1 .. Len(new)
      BY <1>2, <2>2
    <3>3. d \in 1 .. Len(glo) => new[Len(new) + 1 - d] = glo[Len(glo) + 1 - d]
      <4>1. SUFFICES ASSUME d \in 1 .. Len(glo) PROVE new[Len(new) + 1 - d] = glo[Len(glo) + 1 - d]
        OBVIOUS
      <4>2. Len(glo) + 1 - d \in 1 .. Len(glo) /\ Len(new) + 1 - d = (Len(glo) + 1 - d) + 1
        BY <1>2, <4>1
      <4>. QED
        BY <1>2, <4>2
    <3>. QED
      BY <1>6, <1>8, <3>1, <3>2, <3>3
  <2>. QED
    BY <2>1, <2>2
<1>10. /\ \A u \in ThreadId : g[LocalList(u)] = h[LocalList(u)] /\ t[LocalList(u)] = r[LocalList(u)]
       /\ \A u \in ThreadId : g[FetchedList(u)] = h[FetchedList(u)] /\ t[FetchedList(u)] = r[FetchedList(u)]
  <2>1. \A u \in ThreadId : /\ LocalList(u) \in AnyList /\ FetchedList(u) \in AnyList
                            /\ LocalList(u) # top /\ FetchedList(u) # top
    BY <1>1, <1>2, AnyLists
  <2>. QED
    BY <1>6, <1>8, <2>1
<1>11. g = h
  <2>1. \A x \in AnyList : g[x] = h[x]
    BY <1>9, <1>10, SameLists
  <2>. QED
    BY <1>5, <1>8, <2>1
<1>12. t = r
  <2>1. \A x \in AnyList : t[x] = r[x]
    BY <1>9, <1>10, SameLists
  <2>. QED
    BY <1>5, <1>8, <2>1
<1>13. s[top] = 0
  <2>1. Len(glo) + 1 \in Nat /\ Len(glo) + 1 \notin 1 .. Len(glo)
    BY <1>2
  <2>. QED
    BY <1>1, <1>6, <2>1
<1>. QED
  BY <1>1, <1>2, <1>3, <1>4, <1>7, <1>11, <1>12, <1>13 DEF Puts

LEMMA StackShrinks ==
  ASSUME NEW loc, NEW fet, NEW glo \in Seq(Block), glo # <<>>, NEW new, new = Tail(glo)
  PROVE  /\ Puts(FirstsOf(loc, fet, glo), StackList(Len(glo)), Nil, FirstsOf(loc, fet, new))
         /\ Puts(SizesOf(loc, fet, glo), StackList(Len(glo)), 0, SizesOf(loc, fet, new))
         /\ SizesOf(loc, fet, glo)[StackList(Len(glo))] = L
         /\ FirstsOf(loc, fet, glo)[StackList(Len(glo))] = Head(glo)
         /\ StackList(Len(glo)) \in AnyList /\ Head(glo) \in Block /\ new \in Seq(Block)
<1>1. PICK top : top = StackList(Len(glo))
  OBVIOUS
<1>2. /\ Len(glo) \in Nat \ {0} /\ new \in Seq(Block) /\ Len(new) = Len(glo) - 1 /\ Head(glo) = glo[1]
      /\ Head(glo) \in Block /\ \A k \in 1 .. Len(glo) - 1 : new[k] = glo[k + 1]
  OBVIOUS
<1>3. top \in AnyList
  BY <1>1, <1>2, AnyLists
<1>4. PICK f, g, s, t : /\ f = FirstsOf(loc, fet, glo) /\ g = FirstsOf(loc, fet, new)
                        /\ s = SizesOf(loc, fet, glo) /\ t = SizesOf(loc, fet, new)
  OBVIOUS
<1>5. /\ f = [x \in AnyList |-> f[x]] /\ g = [x \in AnyList |-> g[x]]
      /\ s = [x \in AnyList |-> s[x]] /\ t = [x \in AnyList |-> t[x]]
  BY <1>4, AllEnds
<1>6. /\ \A u \in ThreadId : /\ f[FetchedList(u)] = g[FetchedList(u)] /\ s[FetchedList(u)] = t[FetchedList(u)]
                             /\ f[LocalList(u)] = g[LocalList(u)] /\ s[LocalList(u)] = t[LocalList(u)]
      /\ \A d \in Nat : /\ f[StackList(d)] = IF d \in 1 .. Len(glo) THEN glo[Len(glo) + 1 - d] ELSE Nil
                        /\ g[StackList(d)] = IF d \in 1 .. Len(new) THEN new[Len(new) + 1 - d] ELSE Nil
                        /\ s[StackList(d)] = IF d \in 1 .. Len(glo) THEN L ELSE 0
                        /\ t[StackList(d)] = IF d \in 1 .. Len(new) THEN L ELSE 0
  <2>1. \A u \in ThreadId : f[FetchedList(u)] = g[FetchedList(u)] /\ s[FetchedList(u)] = t[FetchedList(u)]
    BY <1>4, FetchedFirst, FetchedSize
  <2>2. \A u \in ThreadId : f[LocalList(u)] = g[LocalList(u)] /\ s[LocalList(u)] = t[LocalList(u)]
    BY <1>4, LocalFirst, LocalSize
  <2>3. \A d \in Nat : f[StackList(d)] = IF d \in 1 .. Len(glo) THEN glo[Len(glo) + 1 - d] ELSE Nil
    BY <1>4, StackFirst, StackSize
  <2>4. \A d \in Nat : g[StackList(d)] = IF d \in 1 .. Len(new) THEN new[Len(new) + 1 - d] ELSE Nil
    BY <1>4, StackFirst, StackSize
  <2>5. \A d \in Nat : s[StackList(d)] = IF d \in 1 .. Len(glo) THEN L ELSE 0
    BY <1>4, StackFirst, StackSize
  <2>6. \A d \in Nat : t[StackList(d)] = IF d \in 1 .. Len(new) THEN L ELSE 0
    BY <1>4, StackFirst, StackSize
  <2>. QED
    BY <2>1, <2>2, <2>3, <2>4, <2>5, <2>6
<1>7. PICK h, r : h = [f EXCEPT ![top] = Nil] /\ r = [s EXCEPT ![top] = 0]
  OBVIOUS
<1>8. /\ h = [x \in AnyList |-> h[x]] /\ r = [x \in AnyList |-> r[x]]
      /\ h[top] = Nil /\ r[top] = 0
      /\ \A x \in AnyList : x # top => h[x] = f[x] /\ r[x] = s[x]
  BY <1>3, <1>5, <1>7
<1>9. ASSUME NEW d \in Nat PROVE g[StackList(d)] = h[StackList(d)] /\ t[StackList(d)] = r[StackList(d)]
  <2>1. CASE d = Len(glo)
    <3>1. d \notin 1 .. Len(new)
      BY <1>2, <2>1
    <3>. QED
      BY <1>1, <1>2, <1>6, <1>8, <2>1, <3>1
  <2>2. CASE d # Len(glo)
    <3>1. StackList(d) \in AnyList /\ StackList(d) # top
      BY <1>1, <2>2, AnyLists
    <3>2. d \in 1 .. Len(glo) <=> d \in 1 .. Len(new)
      <4>1. PICK n : n = Len(glo)
        OBVIOUS
      <4>2. n \in Nat \ {0} /\ Len(new) = n - 1 /\ d # n
        BY <1>2, <2>2, <4>1
      <4>3. d \in 1 .. n <=> d \in 1 .. n - 1
        BY <4>2
      <4>. QED
        BY <4>1, <4>2, <4>3
    <3>3. d \in 1 .. Len(new) => new[Len(new) + 1 - d] = glo[Len(glo) + 1 - d]
      <4>1. SUFFICES ASSUME d \in 1 .. Len(new) PROVE new[Len(new) + 1 - d] = glo[Len(glo) + 1 - d]
        OBVIOUS
      <4>2. Len(new) + 1 - d \in 1 .. Len(glo) - 1 /\ Len(glo) + 1 - d = (Len(new) + 1 - d) + 1
        BY <1>2, <4>1
      <4>. QED
        BY <1>2, <4>2
    <3>. QED
      BY <1>6, <1>8, <3>1, <3>2, <3>3
  <2>. QED
    BY <2>1, <2>2
<1>10. /\ \A u \in ThreadId : g[LocalList(u)] = h[LocalList(u)] /\ t[LocalList(u)] = r[LocalList(u)]
       /\ \A u \in ThreadId : g[FetchedList(u)] = h[FetchedList(u)] /\ t[FetchedList(u)] = r[FetchedList(u)]
  <2>1. \A u \in ThreadId : /\ LocalList(u) \in AnyList /\ FetchedList(u) \in AnyList
                            /\ LocalList(u) # top /\ FetchedList(u) # top
    BY <1>1, <1>2, AnyLists
  <2>. QED
    BY <1>6, <1>8, <2>1
<1>11. g = h
  <2>1. \A x \in AnyList : g[x] = h[x]
    BY <1>9, <1>10, SameLists
  <2>. QED
    BY <1>5, <1>8, <2>1
<1>12. t = r
  <2>1. \A x \in AnyList : t[x] = r[x]
    BY <1>9, <1>10, SameLists
  <2>. QED
    BY <1>5, <1>8, <2>1
<1>13. s[top] = L /\ f[top] = Head(glo)
  <2>1. Len(glo) \in Nat /\ Len(glo) \in 1 .. Len(glo) /\ Len(glo) + 1 - Len(glo) = 1
    BY <1>2
  <2>. QED
    BY <1>1, <1>2, <1>6, <2>1
<1>. QED
  BY <1>1, <1>2, <1>3, <1>4, <1>7, <1>11, <1>12, <1>13 DEF Puts

\* What Popped makes of a list, given the links of the blocks.
Rest(l, nb) == [head |-> IF l.sz = 1 THEN Nil ELSE nb[l.head], sz |-> l.sz - 1,
                mid |-> IF l.sz - 1 > L + 1 THEN l.mid ELSE Nil]

\* A list with a block to give, that block, and what is left.
Gives(loc, o, nb, h, l) ==
    /\ loc \in [ThreadId -> Records] /\ loc[o].sz # 0
    /\ h = loc[o].head /\ l = Rest(loc[o], nb)

\* A thread takes the first block of its list.
LEMMA PopLocal ==
  ASSUME NEW place, NEW rank, NEW nb, NEW loc, NEW fet, NEW glo, NEW out, NEW used,
         Laid(place, rank, nb, loc, fet, glo, out, used), NEW o \in ThreadId,
         NEW h, NEW l, Gives(loc, o, nb, h, l), NEW n, Puts(nb, h, Nil, n), NEW new, Puts(loc, o, l, new)
  PROVE  /\ h \in Block /\ l \in Records
         /\ \E p : Laid(p, rank, n, new, fet, glo, out \cup {h}, used)
<1>14. loc \in [ThreadId -> Records] /\ loc[o].sz # 0 /\ h = loc[o].head /\ l = Rest(loc[o], nb)
  BY DEF Gives
<1>0. /\ L \in Nat /\ L >= 2 /\ Nil \notin Block /\ loc[o] \in Records /\ LocalList(o) \in AnyList
      /\ loc[o].sz \in 0 .. 2 * L /\ DOMAIN loc = ThreadId
  BY <1>14, BlockConstants, AnyLists DEF Records
<1>1. PICK f, s, x : f = FirstsOf(loc, fet, glo) /\ s = SizesOf(loc, fet, glo) /\ x = LocalList(o)
  OBVIOUS
<1>2. Layout(place, rank, nb, f, s, out, used) /\ Mids(loc, place, rank)
  BY <1>1 DEF Laid
<1>3. x \in AnyList /\ f[x] = h /\ s[x] = loc[o].sz
  BY <1>0, <1>1, <1>14, LocalFirst, LocalSize
<1>4. PICK rest, p : rest = (IF s[x] = 1 THEN Nil ELSE nb[f[x]]) /\ Puts(place, h, Out, p)
  BY DEF Puts
<1>5. /\ h \in Block /\ place[h] = x /\ rank[h] = loc[o].sz - 1
      /\ loc[o].sz # 1 => nb[h] \in Block
  BY <1>2, <1>3, <1>14, Below
<1>6. l.head = rest /\ l.sz = loc[o].sz - 1 /\ l.mid = IF loc[o].sz - 1 > L + 1 THEN loc[o].mid ELSE Nil
  BY <1>3, <1>4, <1>14 DEF Rest
<1>7. l \in Records
  <2>1. rest \in Block \cup {Nil} /\ loc[o].sz - 1 \in 0 .. 2 * L
    BY <1>0, <1>3, <1>4, <1>5, <1>14
  <2>2. (IF loc[o].sz - 1 > L + 1 THEN loc[o].mid ELSE Nil) \in Block \cup {Nil}
    BY <1>0 DEF Records
  <2>3. l = [head |-> rest, sz |-> loc[o].sz - 1, mid |-> IF loc[o].sz - 1 > L + 1 THEN loc[o].mid ELSE Nil]
    BY <1>3, <1>4, <1>14 DEF Rest
  <2>. QED
    BY <2>1, <2>2, <2>3 DEF Records
<1>8. PICK g, t : Puts(f, x, rest, g) /\ Puts(s, x, s[x] - 1, t)
  BY DEF Puts
<1>9. Layout(p, rank, n, g, t, out \cup {h}, used)
  BY <1>0, <1>2, <1>3, <1>4, <1>8, <1>14, PopLayout
<1>10. Puts(f, x, l.head, FirstsOf(new, fet, glo)) /\ Puts(s, x, l.sz, SizesOf(new, fet, glo))
  BY <1>0, <1>1, LocalChange
<1>11. FirstsOf(new, fet, glo) = g /\ SizesOf(new, fet, glo) = t
  BY <1>3, <1>6, <1>8, <1>10 DEF Puts
<1>12. Mids(new, p, rank)
  <2>1. SUFFICES ASSUME NEW u \in ThreadId, NEW d, d = new[u], d.sz > L + 1
                 PROVE  d.mid \in Block /\ p[d.mid] = LocalList(u) /\ rank[d.mid] = L
    BY DEF Mids
  <2>2. /\ \A b \in Block : b # h => p[b] = place[b]
        /\ new[o] = l /\ \A v \in ThreadId : v # o => new[v] = loc[v]
    <3>1. DOMAIN place = Block
      BY <1>2 DEF Layout
    <3>. QED
      BY <1>0, <1>4, <3>1 DEF Puts
  <2>3. CASE u = o
    <3>1. loc[o].sz - 1 > L + 1 /\ d.mid = loc[o].mid /\ loc[o].sz > L + 1
      BY <1>0, <1>6, <2>1, <2>2, <2>3
    <3>2. d.mid \in Block /\ place[d.mid] = x /\ rank[d.mid] = L
      BY <1>1, <1>2, <3>1 DEF Mids
    <3>3. rank[h] # L
      BY <1>0, <1>5, <3>1
    <3>. QED
      BY <1>1, <2>2, <2>3, <3>2, <3>3
  <2>4. CASE u # o
    <3>1. d = loc[u]
      BY <2>1, <2>2, <2>4
    <3>2. d.mid \in Block /\ place[d.mid] = LocalList(u) /\ rank[d.mid] = L
      BY <1>2, <2>1, <3>1 DEF Mids
    <3>3. d.mid # h
      BY <1>1, <1>5, <2>4, <3>2, AnyLists
    <3>. QED
      BY <2>2, <3>2, <3>3
  <2>. QED
    BY <2>3, <2>4
<1>13. Laid(p, rank, n, new, fet, glo, out \cup {h}, used)
  BY <1>9, <1>11, <1>12 DEF Laid
<1>. QED
  BY <1>5, <1>7, <1>13

\* As long as the blocks of the local lists stay where they are, so do the mids.
LEMMA MidsStay ==
  ASSUME NEW place, NEW rank, NEW loc, NEW p, Mids(loc, place, rank),
         \A o \in ThreadId, b \in Block : place[b] = LocalList(o) => p[b] = LocalList(o)
  PROVE  Mids(loc, p, rank)
BY DEF Mids

\* The first list of the stack is brought to a thread.
LEMMA FetchTop ==
  ASSUME NEW place, NEW rank, NEW nb, NEW loc, NEW fet, NEW glo \in Seq(Block), NEW out, NEW used,
         Laid(place, rank, nb, loc, fet, glo, out, used), NEW o \in ThreadId, DOMAIN fet = ThreadId,
         fet[o] = Nil, glo # <<>>, NEW v, v = Head(glo), NEW t, t = Tail(glo), NEW new, Puts(fet, o, v, new)
  PROVE  /\ v \in Block /\ t \in Seq(Block)
         /\ \E p : Laid(p, rank, nb, loc, new, t, out, used)
<1>0. L \in Nat /\ L >= 2 /\ Nil \notin Block
  BY BlockConstants
<1>1. PICK f, s, x, y : /\ f = FirstsOf(loc, fet, glo) /\ s = SizesOf(loc, fet, glo)
                        /\ x = StackList(Len(glo)) /\ y = FetchedList(o)
  OBVIOUS
<1>2. Layout(place, rank, nb, f, s, out, used) /\ Mids(loc, place, rank)
  BY <1>1 DEF Laid
<1>3. PICK f1, s1 : f1 = FirstsOf(loc, fet, t) /\ s1 = SizesOf(loc, fet, t)
  OBVIOUS
<1>4. /\ Puts(f, x, Nil, f1) /\ Puts(s, x, 0, s1)
      /\ s[x] = L /\ f[x] = v /\ x \in AnyList /\ v \in Block /\ t \in Seq(Block)
  BY <1>1, <1>3, StackShrinks
<1>5. y \in AnyList /\ x # y /\ s[y] = 0
  <2>1. Len(glo) \in Nat
    OBVIOUS
  <2>. QED
    BY <1>1, <2>1, AnyLists, FetchedSize
<1>6. PICK p : Moves(place, x, y, p)
  BY DEF Moves
<1>7. PICK f2, s2 : f2 = FirstsOf(loc, new, t) /\ s2 = SizesOf(loc, new, t)
  OBVIOUS
<1>8. Puts(f1, y, v, f2) /\ Puts(s1, y, L, s2)
  <2>1. L = IF v = Nil THEN 0 ELSE L
    BY <1>0, <1>4
  <2>. QED
    BY <1>1, <1>3, <1>7, <2>1, FetchedChange
<1>9. Layout(p, rank, nb, f2, s2, out, used)
  BY <1>0, <1>2, <1>4, <1>5, <1>6, <1>8, MoveLayout
<1>10. Mids(loc, p, rank)
  <2>1. \A u \in ThreadId, b \in Block : place[b] = LocalList(u) => p[b] = LocalList(u)
    <3>1. \A u \in ThreadId : LocalList(u) # x
      <4>1. Len(glo) \in Nat
        OBVIOUS
      <4>. QED
        BY <1>1, <4>1, AnyLists
    <3>. QED
      BY <1>6, <3>1 DEF Moves
  <2>. QED
    BY <1>2, <2>1, MidsStay
<1>11. Laid(p, rank, nb, loc, new, t, out, used)
  BY <1>7, <1>9, <1>10 DEF Laid
<1>. QED
  BY <1>4, <1>11

Chains(nb, cut, n) == n = [b \in Block |-> IF b \in cut THEN IF b + 1 \in cut THEN b + 1 ELSE Nil ELSE nb[b]]

\* The blocks of a new buffer.
Cut(a, cut, used) == a \in Nat /\ cut = a .. a + L - 1 /\ cut \subseteq Block /\ used \cap cut = {}

\* A new buffer is brought to a thread.
LEMMA FetchCut ==
  ASSUME NEW place, NEW rank, NEW nb, NEW loc, NEW fet, NEW glo, NEW out, NEW used,
         Laid(place, rank, nb, loc, fet, glo, out, used), NEW o \in ThreadId, DOMAIN fet = ThreadId,
         fet[o] = Nil, NEW a, NEW cut, Cut(a, cut, used),
         NEW n, Chains(nb, cut, n), NEW new, Puts(fet, o, a, new)
  PROVE  \E p, r : Laid(p, r, n, loc, new, glo, out, used \cup cut)
<1>0. L \in Nat /\ L >= 2 /\ Nil \notin Block /\ Uncut \notin AnyList
  BY BlockConstants
<1>a. a \in Nat /\ cut = a .. a + L - 1 /\ cut \subseteq Block /\ used \cap cut = {}
  BY DEF Cut
<1>1. PICK f, s, y : /\ f = FirstsOf(loc, fet, glo) /\ s = SizesOf(loc, fet, glo) /\ y = FetchedList(o)
  OBVIOUS
<1>2. Layout(place, rank, nb, f, s, out, used) /\ Mids(loc, place, rank)
  BY <1>1 DEF Laid
<1>3. y \in AnyList /\ s[y] = 0 /\ \A b \in cut : place[b] = Uncut
  <2>1. y \in AnyList /\ s[y] = 0
    BY <1>1, AnyLists, FetchedSize
  <2>2. \A b \in cut : b \in Block /\ b \notin used
    BY <1>a
  <2>. QED
    BY <1>2, <2>1, <2>2 DEF Layout
<1>4. PICK p, r : /\ p = [b \in Block |-> IF b \in cut THEN y ELSE place[b]]
                  /\ r = [b \in Block |-> IF b \in cut THEN a + L - 1 - b ELSE rank[b]]
  OBVIOUS
<1>5. Cuts(place, rank, nb, y, a, p, r, n)
  BY <1>a, <1>4 DEF Cuts, Chains
<1>6. PICK g, t : g = FirstsOf(loc, new, glo) /\ t = SizesOf(loc, new, glo)
  OBVIOUS
<1>7. Puts(f, y, a, g) /\ Puts(s, y, L, t)
  <2>1. L = IF a = Nil THEN 0 ELSE L
    BY <1>0, <1>a
  <2>. QED
    BY <1>1, <1>6, <2>1, FetchedChange
<1>8. Layout(p, r, n, g, t, out, used \cup cut)
  BY <1>a, <1>2, <1>3, <1>5, <1>7, CutLayout
<1>9. Mids(loc, p, r)
  <2>1. SUFFICES ASSUME NEW u \in ThreadId, loc[u].sz > L + 1
                 PROVE  loc[u].mid \in Block /\ p[loc[u].mid] = LocalList(u) /\ r[loc[u].mid] = L
    BY DEF Mids
  <2>2. loc[u].mid \in Block /\ place[loc[u].mid] = LocalList(u) /\ rank[loc[u].mid] = L
    BY <1>2, <2>1 DEF Mids
  <2>3. loc[u].mid \notin cut
    BY <1>a, <1>0, <1>3, <2>2, AnyLists
  <2>. QED
    BY <1>4, <2>2, <2>3
<1>10. Laid(p, r, n, loc, new, glo, out, used \cup cut)
  BY <1>6, <1>8, <1>9 DEF Laid
<1>. QED
  BY <1>10

\* The list brought back becomes that of a thread that has none.
LEMMA UseFetched ==
  ASSUME NEW place, NEW rank, NEW nb, NEW loc, NEW fet, NEW glo, NEW out, NEW used,
         Laid(place, rank, nb, loc, fet, glo, out, used), NEW o \in ThreadId, NEW u \in ThreadId,
         fet \in [ThreadId -> Block \cup {Nil}], loc \in [ThreadId -> Records],
         fet[o] # Nil, loc[u].sz = 0, NEW l \in Records, l.head = fet[o], l.sz = L,
         NEW brought, Puts(fet, o, Nil, brought), NEW new, Puts(loc, u, l, new)
  PROVE  \E p : Laid(p, rank, nb, new, brought, glo, out, used)
<1>0. L \in Nat /\ L >= 2 /\ Nil \notin Block /\ fet[o] \in Block /\ loc[u] \in Records
  BY BlockConstants
<1>1. PICK f, s, x, y : /\ f = FirstsOf(loc, fet, glo) /\ s = SizesOf(loc, fet, glo)
                        /\ x = FetchedList(o) /\ y = LocalList(u)
  OBVIOUS
<1>2. Layout(place, rank, nb, f, s, out, used) /\ Mids(loc, place, rank)
  BY <1>1 DEF Laid
<1>4. x \in AnyList /\ y \in AnyList /\ x # y
  BY <1>1, AnyLists
<1>5. f[x] = fet[o] /\ s[x] = L /\ s[y] = 0
  BY <1>0, <1>1, FetchedFirst, FetchedSize, LocalSize
<1>6. PICK f1, s1, f2, s2 : /\ f1 = FirstsOf(loc, brought, glo) /\ s1 = SizesOf(loc, brought, glo)
                            /\ f2 = FirstsOf(new, brought, glo) /\ s2 = SizesOf(new, brought, glo)
  OBVIOUS
<1>7. Puts(f, x, Nil, f1) /\ Puts(s, x, 0, s1)
  <2>1. 0 = (IF Nil = Nil THEN 0 ELSE L) /\ DOMAIN fet = ThreadId
    OBVIOUS
  <2>. QED
    BY <1>1, <1>6, <2>1, FetchedChange
<1>8. Puts(f1, y, fet[o], f2) /\ Puts(s1, y, L, s2)
  <2>1. DOMAIN loc = ThreadId
    OBVIOUS
  <2>2. Puts(f1, y, l.head, f2) /\ Puts(s1, y, l.sz, s2)
    BY <1>1, <1>6, <2>1, LocalChange
  <2>. QED
    BY <2>2
<1>9. PICK p : Moves(place, x, y, p)
  BY DEF Moves
<1>10. Layout(p, rank, nb, f2, s2, out, used)
  BY <1>0, <1>2, <1>4, <1>5, <1>7, <1>8, <1>9, MoveLayout
<1>11. Mids(new, p, rank)
  <2>1. SUFFICES ASSUME NEW v \in ThreadId, NEW d, d = new[v], d.sz > L + 1
                 PROVE  d.mid \in Block /\ p[d.mid] = LocalList(v) /\ rank[d.mid] = L
    BY DEF Mids
  <2>2. new[u] = l /\ \A w \in ThreadId : w # u => new[w] = loc[w]
    BY DEF Puts
  <2>3. v # u /\ d = loc[v]
    BY <1>0, <2>1, <2>2
  <2>4. d.mid \in Block /\ place[d.mid] = LocalList(v) /\ rank[d.mid] = L
    BY <1>2, <2>1, <2>3 DEF Mids
  <2>5. LocalList(v) # x
    BY <1>1, AnyLists
  <2>. QED
    BY <1>9, <2>4, <2>5 DEF Moves
<1>12. Laid(p, rank, nb, new, brought, glo, out, used)
  BY <1>6, <1>10, <1>11 DEF Laid
<1>. QED
  BY <1>12

\* The list brought back is put on the stack.
LEMMA StackFetched ==
  ASSUME NEW place, NEW rank, NEW nb, NEW loc, NEW fet, NEW glo \in Seq(Block), NEW out, NEW used,
         Laid(place, rank, nb, loc, fet, glo, out, used), NEW o \in ThreadId,
         fet \in [ThreadId -> Block \cup {Nil}], NEW v \in Block, v = fet[o],
         NEW brought, Puts(fet, o, Nil, brought), NEW stack, stack = <<v>> \o glo
  PROVE  /\ stack \in Seq(Block)
         /\ \E p : Laid(p, rank, nb, loc, brought, stack, out, used)
<1>0. L \in Nat /\ L >= 2 /\ Nil \notin Block /\ Len(glo) + 1 \in Nat
  BY BlockConstants
<1>1. PICK f, s, x, y : /\ f = FirstsOf(loc, fet, glo) /\ s = SizesOf(loc, fet, glo)
                        /\ x = FetchedList(o) /\ y = StackList(Len(glo) + 1)
  OBVIOUS
<1>2. Layout(place, rank, nb, f, s, out, used) /\ Mids(loc, place, rank)
  BY <1>1 DEF Laid
<1>3. x \in AnyList /\ x # y /\ y \in AnyList
  BY <1>0, <1>1, AnyLists
<1>4. f[x] = v /\ s[x] = L
  BY <1>0, <1>1, FetchedFirst, FetchedSize
<1>5. PICK f1, s1, f2, s2 : /\ f1 = FirstsOf(loc, brought, glo) /\ s1 = SizesOf(loc, brought, glo)
                            /\ f2 = FirstsOf(loc, brought, stack) /\ s2 = SizesOf(loc, brought, stack)
  OBVIOUS
<1>6. Puts(f, x, Nil, f1) /\ Puts(s, x, 0, s1)
  <2>1. 0 = (IF Nil = Nil THEN 0 ELSE L) /\ DOMAIN fet = ThreadId
    OBVIOUS
  <2>. QED
    BY <1>1, <1>5, <2>1, FetchedChange
<1>7. Puts(f1, y, v, f2) /\ Puts(s1, y, L, s2) /\ stack \in Seq(Block)
  BY <1>1, <1>5, StackChange
<1>8. s[y] = 0
  BY <1>1, StackChange
<1>9. PICK p : Moves(place, x, y, p)
  BY DEF Moves
<1>10. Layout(p, rank, nb, f2, s2, out, used)
  BY <1>0, <1>2, <1>3, <1>4, <1>6, <1>7, <1>8, <1>9, MoveLayout
<1>11. Mids(loc, p, rank)
  <2>1. \A u \in ThreadId : LocalList(u) # x
    BY <1>1, AnyLists
  <2>2. \A u \in ThreadId, b \in Block : place[b] = LocalList(u) => p[b] = LocalList(u)
    BY <1>9, <2>1 DEF Moves
  <2>. QED
    BY <1>2, <2>2, MidsStay
<1>12. Laid(p, rank, nb, loc, brought, stack, out, used)
  BY <1>5, <1>10, <1>11 DEF Laid
<1>. QED
  BY <1>7, <1>12

\* The upper half of a full list, and a list with one block more.
Halves(loc, o, m, l) ==
    /\ loc \in [ThreadId -> Records] /\ loc[o].sz = 2 * L /\ m = loc[o].mid
    /\ l \in Records /\ l.head = loc[o].head /\ l.sz = L
Grows(loc, o, b, l) ==
    /\ loc \in [ThreadId -> Records] /\ loc[o].sz < 2 * L
    /\ l \in Records /\ l.head = b /\ l.sz = loc[o].sz + 1
    /\ l.mid = IF loc[o].sz = L + 1 THEN loc[o].head ELSE loc[o].mid
Stacks(nb, m, glo, stack) == glo \in Seq(Block) /\ stack = <<nb[m]>> \o glo
Links(nb, b, loc, o, n) == n = [nb EXCEPT ![b] = loc[o].head]

\* A thread with 2L blocks gives those after mid to the stack.
LEMMA SpillLocal ==
  ASSUME NEW place, NEW rank, NEW nb, NEW loc, NEW fet, NEW glo, NEW out, NEW used,
         Laid(place, rank, nb, loc, fet, glo, out, used), NEW o \in ThreadId,
         NEW m, NEW l, Halves(loc, o, m, l), NEW new, Puts(loc, o, l, new),
         NEW n, Puts(nb, m, Nil, n), NEW stack, Stacks(nb, m, glo, stack)
  PROVE  /\ stack \in Seq(Block) /\ m \in Block
         /\ \E p, r : Laid(p, r, n, new, fet, stack, out, used)
<1>7. /\ loc \in [ThreadId -> Records] /\ loc[o].sz = 2 * L /\ m = loc[o].mid
      /\ l \in Records /\ l.head = loc[o].head /\ l.sz = L
      /\ glo \in Seq(Block) /\ stack = <<nb[m]>> \o glo
  BY DEF Halves, Stacks
<1>0. /\ L \in Nat \ {0} /\ L >= 2 /\ Nil \notin Block /\ Len(glo) + 1 \in Nat /\ loc[o] \in Records
      /\ 2 * L > L + 1 /\ 2 * L - L = L /\ DOMAIN loc = ThreadId
  BY <1>7, BlockConstants
<1>1. PICK f, s, x, y : /\ f = FirstsOf(loc, fet, glo) /\ s = SizesOf(loc, fet, glo)
                        /\ x = LocalList(o) /\ y = StackList(Len(glo) + 1)
  OBVIOUS
<1>2. Layout(place, rank, nb, f, s, out, used) /\ Mids(loc, place, rank)
  BY <1>1 DEF Laid
<1>3. x \in AnyList /\ x # y /\ y \in AnyList
  BY <1>0, <1>1, AnyLists
<1>4. f[x] = loc[o].head /\ s[x] = 2 * L
  BY <1>1, <1>7, LocalFirst, LocalSize
<1>5. m \in Block /\ place[m] = x /\ rank[m] = L
  BY <1>0, <1>1, <1>2, <1>7 DEF Mids
<1>6. nb[m] \in Block
  BY <1>0, <1>2, <1>3, <1>5 DEF Layout
<1>8. PICK f1, s1, f2, s2 : /\ f1 = FirstsOf(new, fet, glo) /\ s1 = SizesOf(new, fet, glo)
                            /\ f2 = FirstsOf(new, fet, stack) /\ s2 = SizesOf(new, fet, stack)
  OBVIOUS
<1>9. Puts(f, x, f[x], f1) /\ Puts(s, x, s[x] - L, s1)
  <2>1. Puts(f, x, l.head, f1) /\ Puts(s, x, l.sz, s1)
    BY <1>0, <1>1, <1>8, LocalChange
  <2>. QED
    BY <1>0, <1>4, <1>7, <2>1
<1>10. f1 = f
  BY <1>2, <1>9 DEF Puts, Layout
<1>11. Puts(f1, y, nb[m], f2) /\ Puts(s1, y, L, s2) /\ stack \in Seq(Block)
  BY <1>1, <1>6, <1>7, <1>8, StackChange
<1>12. s[y] = 0
  BY <1>1, <1>6, <1>7, StackChange
<1>13. PICK p, r : Splits(place, rank, x, y, L, p, r)
  BY DEF Splits
<1>14. Layout(p, r, n, f2, s2, out, used)
  BY <1>0, <1>2, <1>3, <1>5, <1>9, <1>10, <1>11, <1>12, <1>13, SplitLayout
<1>15. Mids(new, p, r)
  <2>1. SUFFICES ASSUME NEW v \in ThreadId, NEW d, d = new[v], d.sz > L + 1
                 PROVE  d.mid \in Block /\ p[d.mid] = LocalList(v) /\ r[d.mid] = L
    BY DEF Mids
  <2>2. new[o] = l /\ \A w \in ThreadId : w # o => new[w] = loc[w]
    BY <1>0, <1>7 DEF Puts
  <2>3. v # o /\ d = loc[v]
    BY <1>0, <1>7, <2>1, <2>2
  <2>4. d.mid \in Block /\ place[d.mid] = LocalList(v) /\ rank[d.mid] = L
    BY <1>2, <2>1, <2>3 DEF Mids
  <2>5. LocalList(v) # x
    BY <1>1, <2>3, AnyLists
  <2>. QED
    BY <1>13, <2>4, <2>5 DEF Splits
<1>16. Laid(p, r, n, new, fet, stack, out, used)
  BY <1>8, <1>14, <1>15 DEF Laid
<1>. QED
  BY <1>5, <1>7, <1>11, <1>16

\* A thread puts a block back on its list.
LEMMA PushLocal ==
  ASSUME NEW place, NEW rank, NEW nb, NEW loc, NEW fet, NEW glo, NEW out, NEW used,
         Laid(place, rank, nb, loc, fet, glo, out, used), NEW o \in ThreadId,
         NEW b \in Block, b \in out, NEW l, Grows(loc, o, b, l),
         NEW new, Puts(loc, o, l, new), NEW n, Links(nb, b, loc, o, n)
  PROVE  \E p, r : Laid(p, r, n, new, fet, glo, out \ {b}, used)
<1>4. /\ loc \in [ThreadId -> Records] /\ loc[o].sz < 2 * L
      /\ l \in Records /\ l.head = b /\ l.sz = loc[o].sz + 1
      /\ l.mid = IF loc[o].sz = L + 1 THEN loc[o].head ELSE loc[o].mid
  BY DEF Grows
<1>a. Puts(nb, b, loc[o].head, n)
  BY DEF Links, Puts
<1>0. /\ L \in Nat /\ L >= 2 /\ Nil \notin Block /\ loc[o] \in Records /\ loc[o].sz \in 0 .. 2 * L
      /\ DOMAIN loc = ThreadId /\ Out \notin AnyList
  BY <1>4, BlockConstants DEF Records
<1>1. PICK f, s, x : f = FirstsOf(loc, fet, glo) /\ s = SizesOf(loc, fet, glo) /\ x = LocalList(o)
  OBVIOUS
<1>2. Layout(place, rank, nb, f, s, out, used) /\ Mids(loc, place, rank)
  BY <1>1 DEF Laid
<1>3. x \in AnyList /\ f[x] = loc[o].head /\ s[x] = loc[o].sz
  BY <1>1, AnyLists, LocalFirst, LocalSize
<1>5. PICK f1, s1 : f1 = FirstsOf(new, fet, glo) /\ s1 = SizesOf(new, fet, glo)
  OBVIOUS
<1>6. Puts(f, x, b, f1) /\ Puts(s, x, s[x] + 1, s1)
  <2>1. Puts(f, x, l.head, f1) /\ Puts(s, x, l.sz, s1)
    BY <1>0, <1>1, <1>5, LocalChange
  <2>. QED
    BY <1>3, <1>4, <2>1
<1>7. PICK p, r : Puts(place, b, x, p) /\ Puts(rank, b, s[x], r)
  BY DEF Puts
<1>8. Layout(p, r, n, f1, s1, out \ {b}, used)
  BY <1>a, <1>2, <1>3, <1>6, <1>7, PushLayout
<1>9. Mids(new, p, r)
  <2>1. SUFFICES ASSUME NEW v \in ThreadId, NEW d, d = new[v], d.sz > L + 1
                 PROVE  d.mid \in Block /\ p[d.mid] = LocalList(v) /\ r[d.mid] = L
    BY DEF Mids
  <2>2. /\ new[o] = l /\ \A w \in ThreadId : w # o => new[w] = loc[w]
        /\ \A c \in Block : c # b => p[c] = place[c] /\ r[c] = rank[c]
    <3>1. DOMAIN place = Block /\ DOMAIN rank = Block
      BY <1>2 DEF Layout
    <3>. QED
      BY <1>0, <1>7, <3>1 DEF Puts
  <2>3. place[b] = Out
    BY <1>2 DEF Layout
  <2>4. \A w \in ThreadId : LocalList(w) # Out
    BY <1>0, AnyLists
  <2>5. CASE v = o /\ loc[o].sz = L + 1
    <3>1. f[x] \in Block /\ place[f[x]] = x /\ rank[f[x]] = L
      <4>1. s[x] # 0 /\ s[x] - 1 = L
        BY <1>0, <1>3, <2>5
      <4>. QED
        BY <1>2, <1>3, <4>1 DEF Layout
    <3>2. d.mid = f[x]
      BY <1>3, <1>4, <2>1, <2>2, <2>5
    <3>3. f[x] # b
      BY <1>1, <2>3, <2>4, <3>1
    <3>. QED
      BY <1>1, <2>2, <2>5, <3>1, <3>2, <3>3
  <2>6. CASE ~ (v = o /\ loc[o].sz = L + 1)
    <3>1. loc[v].sz > L + 1 /\ d.mid = loc[v].mid
      BY <1>0, <1>4, <2>1, <2>2, <2>6
    <3>2. d.mid \in Block /\ place[d.mid] = LocalList(v) /\ rank[d.mid] = L
      BY <1>2, <3>1 DEF Mids
    <3>3. d.mid # b
      BY <2>3, <2>4, <3>2
    <3>. QED
      BY <2>2, <3>2, <3>3
  <2>. QED
    BY <2>5, <2>6
<1>10. Laid(p, r, n, new, fet, glo, out \ {b}, used)
  BY <1>5, <1>8, <1>9 DEF Laid
<1>. QED
  BY <1>10

BlocksAt(place, x) == {b \in Block : place[b] = x}

\* A walk from the first block of a list meets its blocks, one of each rank.
LEMMA Walked ==
  ASSUME NEW place, NEW rank, NEW first, NEW size, NEW out, NEW used,
         Layout(place, rank, nextBlock, first, size, out, used), NEW x \in AnyList,
         NEW n \in Nat, size[x] <= n
  PROVE  /\ Walk(first[x], n) = BlocksAt(place, x)
         /\ \A k \in 0 .. size[x] - 1 : \E b \in Block : place[b] = x /\ rank[b] = k
<1>0. /\ Nil \notin Block /\ size[x] \in Nat /\ nextBlock \in [Block -> Block \cup {Nil}]
      /\ first[x] \in Block \cup {Nil}
  BY BlockConstants DEF Layout
<1> DEFINE S == Block \cup {Nil}
           F == [e \in (1 .. n) \X S |-> IF e[2] = Nil THEN Nil ELSE nextBlock[e[2]]]
           IsWalk(at) == at = [k \in 0 .. n |-> IF k = 0 THEN first[x]
                                                ELSE IF at[k - 1] = Nil THEN Nil ELSE nextBlock[at[k - 1]]]
<1>1. \E at : at \in [0 .. n -> S] /\ IsWalk(at)
  <2>1. F \in [(1 .. n) \X S -> S]
    BY <1>0
  <2>2. \A k \in 1 .. n, v \in S : F[<<k, v>>] = IF v = Nil THEN Nil ELSE nextBlock[v]
    OBVIOUS
  <2> HIDE DEF F
  <2>3. PICK g \in [0 .. n -> S] : Loops(g, n, first[x], F)
    BY <1>0, <2>1, LoopExists
  <2>4. ASSUME NEW k \in 0 .. n
        PROVE  g[k] = IF k = 0 THEN first[x] ELSE IF g[k - 1] = Nil THEN Nil ELSE nextBlock[g[k - 1]]
    <3>1. CASE k = 0
      BY <2>3, <3>1 DEF Loops
    <3>2. CASE k # 0
      <4>1. k \in 1 .. n /\ k - 1 \in 0 .. n
        BY <3>2
      <4>2. g[k] = F[<<k, g[k - 1]>>] /\ g[k - 1] \in S
        BY <2>3, <4>1 DEF Loops
      <4>. QED
        BY <2>2, <3>2, <4>1, <4>2
    <3>. QED
      BY <3>1, <3>2
  <2>5. g = [k \in 0 .. n |-> g[k]]
    BY <2>3
  <2>6. IsWalk(g)
    BY <2>4, <2>5
  <2>. QED
    BY <2>3, <2>6
<1>2. PICK at : at = CHOOSE w : IsWalk(w)
  OBVIOUS
<1>3. IsWalk(at)
  BY <1>1, <1>2
<1>4. Walk(first[x], n) = {at[k] : k \in 0 .. n - 1} \ {Nil}
  BY <1>2 DEF Walk
<1>5. \A k \in 0 .. n : at[k] = IF k = 0 THEN first[x]
                                ELSE IF at[k - 1] = Nil THEN Nil ELSE nextBlock[at[k - 1]]
  BY <1>3
<1> HIDE DEF IsWalk, F, S
<1> DEFINE Here(k) == IF k < size[x] THEN at[k] \in Block /\ place[at[k]] = x /\ rank[at[k]] = size[x] - 1 - k
                                     ELSE at[k] = Nil
           T == {k \in Nat : k <= n => Here(k)}
<1>6. 0 \in T
  <2>1. at[0] = first[x]
    BY <1>5
  <2>. QED
    BY <1>0, <2>1 DEF Layout
<1>7. ASSUME NEW k \in 1 .. n, k - 1 \in T PROVE k \in T
  <2>1. Here(k - 1) /\ at[k] = IF at[k - 1] = Nil THEN Nil ELSE nextBlock[at[k - 1]]
    BY <1>5, <1>7
  <2>2. CASE k < size[x]
    <3>1. PICK b : b = at[k - 1]
      OBVIOUS
    <3>2. b \in Block /\ place[b] = x /\ rank[b] = size[x] - k /\ rank[b] # 0 /\ at[k] = nextBlock[b]
      BY <1>0, <2>1, <2>2, <3>1
    <3>3. nextBlock[b] \in Block /\ place[nextBlock[b]] = x /\ rank[nextBlock[b]] = rank[b] - 1
      BY <3>2 DEF Layout
    <3>. QED
      BY <1>0, <2>2, <3>2, <3>3
  <2>3. CASE k = size[x]
    <3>1. PICK b : b = at[k - 1]
      OBVIOUS
    <3>2. b \in Block /\ place[b] = x /\ rank[b] = 0 /\ at[k] = nextBlock[b]
      BY <1>0, <2>1, <2>3, <3>1
    <3>. QED
      BY <2>3, <3>2 DEF Layout
  <2>4. CASE k > size[x]
    BY <1>0, <2>1, <2>4
  <2>. QED
    BY <1>0, <2>2, <2>3, <2>4
<1>8. \A k \in 0 .. n : Here(k)
  <2> HIDE DEF T
  <2>1. \A k \in 0 .. n : k \in T
    BY <1>6, <1>7, CountUp
  <2>. QED
    BY <2>1 DEF T
<1>9. ASSUME NEW b \in Block, place[b] = x PROVE \E k \in 0 .. n - 1 : at[k] = b
  <2>1. rank[b] \in Nat /\ rank[b] < size[x]
    BY <1>9 DEF Layout
  <2>2. PICK k : k = size[x] - 1 - rank[b]
    OBVIOUS
  <2>3. k \in 0 .. n - 1 /\ k \in 0 .. n /\ k < size[x] /\ size[x] - 1 - k = rank[b]
    BY <1>0, <2>1, <2>2
  <2>4. at[k] \in Block /\ place[at[k]] = x /\ rank[at[k]] = rank[b]
    BY <1>8, <2>3
  <2>5. at[k] = b
    BY <1>9, <2>4 DEF Layout
  <2>. QED
    BY <2>3, <2>5
<1>10. Walk(first[x], n) = BlocksAt(place, x)
  <2>1. ASSUME NEW k \in 0 .. n - 1, at[k] # Nil PROVE at[k] \in Block /\ place[at[k]] = x
    BY <1>8, <2>1
  <2>. QED
    BY <1>0, <1>4, <1>9, <2>1 DEF BlocksAt
<1>11. ASSUME NEW k \in 0 .. size[x] - 1 PROVE \E b \in Block : place[b] = x /\ rank[b] = k
  <2>1. PICK j : j = size[x] - 1 - k
    OBVIOUS
  <2>2. j \in 0 .. n /\ j < size[x] /\ size[x] - 1 - j = k
    BY <1>0, <2>1
  <2>. QED
    BY <1>8, <2>2
<1>. QED
  BY <1>10, <1>11

\* So a list has as many blocks as it says.
LEMMA ListCount ==
  ASSUME NEW place, NEW rank, NEW first, NEW size, NEW out, NEW used,
         Layout(place, rank, nextBlock, first, size, out, used), NEW x \in AnyList
  PROVE  /\ IsFiniteSet(BlocksAt(place, x)) /\ size[x] \in Nat
         /\ Cardinality(BlocksAt(place, x)) = size[x]
<1>1. PICK B, s : B = BlocksAt(place, x) /\ s = size[x]
  OBVIOUS
<1>2. s \in Nat /\ s <= s
  BY <1>1 DEF Layout
<1>3. \A k \in 0 .. s - 1 : \E b \in Block : place[b] = x /\ rank[b] = k
  BY <1>1, <1>2, Walked
<1>4. /\ \A b \in B : b \in Block /\ place[b] = x /\ rank[b] \in 0 .. s - 1
      /\ \A b, c \in B : rank[b] = rank[c] => b = c
      /\ \A k \in 0 .. s - 1 : \E b \in B : rank[b] = k
  BY <1>1, <1>2, <1>3 DEF BlocksAt, Layout
<1>5. PICK E : E = 0 .. s - 1
  OBVIOUS
<1>6. PICK f : f = [k \in E |-> CHOOSE b \in B : rank[b] = k]
  OBVIOUS
<1>7. \A k \in E : f[k] \in B /\ rank[f[k]] = k
  BY <1>4, <1>5, <1>6
<1>8. f \in Bijection(E, B)
  <2>1. f \in [E -> B]
    BY <1>6, <1>7
  <2>2. \A k, l \in E : f[k] = f[l] => k = l
    BY <1>7
  <2>3. \A b \in B : \E k \in E : f[k] = b
    BY <1>4, <1>5, <1>7
  <2>. QED
    BY <2>1, <2>2, <2>3 DEF Bijection, Injection, Surjection, IsInjective
<1>9. IsFiniteSet(E) /\ Cardinality(E) = s
  <2>1. 0 \in Int /\ s - 1 \in Int
    BY <1>2
  <2>2. IsFiniteSet(0 .. s - 1) /\ Cardinality(0 .. s - 1) = IF 0 > s - 1 THEN 0 ELSE s - 1 - 0 + 1
    BY <2>1, FS_Interval
  <2>. QED
    BY <1>2, <1>5, <2>2
<1>10. IsFiniteSet(B) /\ Cardinality(B) = Cardinality(E)
  BY <1>8, <1>9, FS_Bijection DEF ExistsBijection
<1>. QED
  BY <1>1, <1>2, <1>9, <1>10

\* A finite set and another one apart from it have together as many members as both.
LEMMA ApartCount ==
  ASSUME NEW S, NEW T, IsFiniteSet(S), IsFiniteSet(T), S \cap T = {}
  PROVE  /\ IsFiniteSet(S \cup T) /\ Cardinality(S) \in Nat /\ Cardinality(T) \in Nat
         /\ Cardinality(S \cup T) = Cardinality(S) + Cardinality(T)
<1>1. PICK I : I = S \cap T
  OBVIOUS
<1>2. IsFiniteSet(S \cup T) /\ Cardinality(S \cup T) = Cardinality(S) + Cardinality(T) - Cardinality(I)
  BY <1>1, FS_Union
<1>3. Cardinality(I) = 0
  BY <1>1, FS_EmptySet
<1>4. Cardinality(S) \in Nat /\ Cardinality(T) \in Nat
  BY FS_CardinalityType
<1>. QED
  BY <1>2, <1>3, <1>4

\* The loop of SizesTo.
LEMMA SizesLoop ==
  ASSUME BlockTypes
  PROVE  \E g \in [0 .. NumThreadIds -> Nat] :
            /\ SizesTo(NumThreadIds) = g[NumThreadIds] /\ g[0] = 0
            /\ \A k \in 1 .. NumThreadIds : g[k] = g[k - 1] + local[k - 1].sz
<1>0. /\ NumThreadIds \in Nat /\ ThreadId = 0 .. NumThreadIds - 1 /\ L \in Nat
      /\ \A o \in ThreadId : local[o] \in Records /\ local[o].sz \in Nat
  BY BlockConstants DEF BlockTypes, Records
<1>1. PICK n : n = NumThreadIds
  OBVIOUS
<1>2. \A k \in 1 .. n : k - 1 \in ThreadId /\ local[k - 1].sz \in Nat
  BY <1>0, <1>1
<1> DEFINE F == [e \in (1 .. n) \X Nat |-> e[2] + local[e[1] - 1].sz]
           IsSum(s) == s = [k \in 0 .. n |-> IF k = 0 THEN 0 ELSE s[k - 1] + local[k - 1].sz]
<1>3. \E s : s \in [0 .. n -> Nat] /\ IsSum(s)
  <2>1. F \in [(1 .. n) \X Nat -> Nat] /\ \A k \in 1 .. n, v \in Nat : F[<<k, v>>] = v + local[k - 1].sz
    BY <1>2
  <2> HIDE DEF F
  <2>2. PICK g \in [0 .. n -> Nat] : Loops(g, n, 0, F)
    BY <1>0, <1>1, <2>1, LoopExists
  <2>3. ASSUME NEW k \in 0 .. n
        PROVE  g[k] = IF k = 0 THEN 0 ELSE g[k - 1] + local[k - 1].sz
    <3>1. CASE k = 0
      BY <2>2, <3>1 DEF Loops
    <3>2. CASE k # 0
      <4>1. k \in 1 .. n /\ k - 1 \in 0 .. n
        BY <1>0, <1>1, <3>2
      <4>2. g[k] = F[<<k, g[k - 1]>>] /\ g[k - 1] \in Nat
        BY <2>2, <4>1 DEF Loops
      <4>. QED
        BY <2>1, <3>2, <4>1, <4>2
    <3>. QED
      BY <3>1, <3>2
  <2>4. g = [k \in 0 .. n |-> g[k]]
    BY <2>2
  <2>5. IsSum(g)
    BY <2>3, <2>4
  <2>. QED
    BY <2>2, <2>5
<1>4. PICK s : s = CHOOSE w : IsSum(w)
  OBVIOUS
<1>5. IsSum(s)
  BY <1>3, <1>4
<1>6. SizesTo(n) = s[n]
  BY <1>4 DEF SizesTo
<1>7. /\ s = [k \in 0 .. n |-> s[k]]
      /\ \A k \in 0 .. n : s[k] = IF k = 0 THEN 0 ELSE s[k - 1] + local[k - 1].sz
  BY <1>5
<1> HIDE DEF IsSum, F
<1>8. s[0] = 0 /\ \A k \in 1 .. n : s[k] = s[k - 1] + local[k - 1].sz
  <2>1. 0 \in 0 .. n /\ \A k \in 1 .. n : k \in 0 .. n /\ k # 0
    BY <1>0, <1>1
  <2>. QED
    BY <1>7, <2>1
<1>9. \A k \in 0 .. n : s[k] \in Nat
  <2> DEFINE T == {k \in Nat : k <= n => s[k] \in Nat}
  <2>1. 0 \in T
    BY <1>8
  <2>2. ASSUME NEW k \in 1 .. n, k - 1 \in T PROVE k \in T
    <3>1. s[k] = s[k - 1] + local[k - 1].sz /\ s[k - 1] \in Nat
      BY <1>0, <1>1, <1>8, <2>2
    <3>. QED
      BY <1>2, <3>1
  <2> HIDE DEF T
  <2>3. \A k \in 0 .. n : k \in T
    BY <1>0, <1>1, <2>1, <2>2, CountUp
  <2>. QED
    BY <2>3 DEF T
<1>10. s \in [0 .. n -> Nat]
  BY <1>7, <1>9
<1>. QED
  BY <1>1, <1>6, <1>8, <1>10

\* The blocks on the lists of the first n threads, and on the n lowest lists of the stack.
WithThreads(place, n) == {b \in Block : \E o \in 0 .. n - 1 : place[b] = LocalList(o)}
OnStack(place, n) == {b \in Block : \E d \in 1 .. n : place[b] = StackList(d)}

LEMMA ThreadsCount ==
  ASSUME BlockTypes, NEW place, NEW rank,
         Laid(place, rank, nextBlock, local, fetched, global, held, 0 .. buffers * L - 1)
  PROVE  LET S == WithThreads(place, NumThreadIds)
         IN  IsFiniteSet(S) /\ SizesTo(NumThreadIds) \in Nat /\ Cardinality(S) = SizesTo(NumThreadIds)
<1>0. NumThreadIds \in Nat /\ ThreadId = 0 .. NumThreadIds - 1
  BY BlockConstants
<1>1. PICK n : n = NumThreadIds
  OBVIOUS
<1>2. PICK g \in [0 .. n -> Nat] : /\ SizesTo(n) = g[n] /\ g[0] = 0
                                   /\ \A k \in 1 .. n : g[k] = g[k - 1] + local[k - 1].sz
  BY <1>1, SizesLoop
<1>3. PICK f, s : f = FirstsOf(local, fetched, global) /\ s = SizesOf(local, fetched, global)
  OBVIOUS
<1>4. PICK used : used = 0 .. buffers * L - 1
  OBVIOUS
<1>5. Layout(place, rank, nextBlock, f, s, held, used)
  BY <1>3, <1>4 DEF Laid
<1> DEFINE T == {k \in Nat : k <= n => /\ IsFiniteSet(WithThreads(place, k))
                                       /\ Cardinality(WithThreads(place, k)) = g[k]}
<1>6. 0 \in T
  <2>1. WithThreads(place, 0) = {}
    BY DEF WithThreads
  <2>. QED
    BY <1>2, <2>1, FS_EmptySet
<1>7. ASSUME NEW k \in 1 .. n, k - 1 \in T PROVE k \in T
  <2>1. PICK S, x, B : S = WithThreads(place, k - 1) /\ x = LocalList(k - 1) /\ B = BlocksAt(place, x)
    OBVIOUS
  <2>2. k - 1 \in ThreadId /\ g[k] = g[k - 1] + local[k - 1].sz /\ IsFiniteSet(S) /\ Cardinality(S) = g[k - 1]
    BY <1>0, <1>1, <1>2, <1>7, <2>1
  <2>3. x \in AnyList /\ s[x] = local[k - 1].sz
    BY <1>3, <2>1, <2>2, AnyLists, LocalSize
  <2>4. IsFiniteSet(B) /\ Cardinality(B) = local[k - 1].sz
    BY <1>5, <2>1, <2>3, ListCount
  <2>5. S \cap B = {}
    <3>1. \A o \in 0 .. k - 2 : o \in ThreadId /\ o # k - 1
      BY <1>0, <1>1
    <3>. QED
      BY <2>1, <2>2, <3>1, AnyLists DEF WithThreads, BlocksAt
  <2>6. WithThreads(place, k) = S \cup B
    <3>1. \A o : o \in 0 .. k - 1 <=> o \in 0 .. (k - 1) - 1 \/ o = k - 1
      OBVIOUS
    <3>. QED
      BY <2>1, <3>1 DEF WithThreads, BlocksAt
  <2>7. IsFiniteSet(S \cup B) /\ Cardinality(S \cup B) = Cardinality(S) + Cardinality(B)
    BY <2>2, <2>4, <2>5, ApartCount
  <2>8. g[k - 1] \in Nat /\ local[k - 1].sz \in Nat
    BY <1>2, <1>7, <2>2, <2>4, FS_CardinalityType
  <2>9. Cardinality(S \cup B) = g[k]
    BY <2>2, <2>4, <2>7
  <2>10. k \in Nat /\ IsFiniteSet(WithThreads(place, k)) /\ Cardinality(WithThreads(place, k)) = g[k]
    BY <2>6, <2>7, <2>9
  <2>. QED
    BY <2>10
<1> HIDE DEF T
<1>8. n \in T
  BY <1>0, <1>1, <1>6, <1>7, CountUpTo
<1>9. g[n] \in Nat
  BY <1>0, <1>1, <1>2
<1>. QED
  BY <1>1, <1>2, <1>8, <1>9 DEF T

LEMMA StackCount ==
  ASSUME BlockTypes, NEW place, NEW rank,
         Laid(place, rank, nextBlock, local, fetched, global, held, 0 .. buffers * L - 1)
  PROVE  LET S == OnStack(place, Len(global))
         IN  IsFiniteSet(S) /\ Cardinality(S) = Len(global) * L
<1>0. L \in Nat
  BY BlockConstants
<1>1. PICK n : n = Len(global)
  OBVIOUS
<1>2. n \in Nat
  BY <1>1 DEF BlockTypes
<1>3. PICK f, s : f = FirstsOf(local, fetched, global) /\ s = SizesOf(local, fetched, global)
  OBVIOUS
<1>4. PICK used : used = 0 .. buffers * L - 1
  OBVIOUS
<1>5. Layout(place, rank, nextBlock, f, s, held, used)
  BY <1>3, <1>4 DEF Laid
<1> DEFINE T == {k \in Nat : k <= n => /\ IsFiniteSet(OnStack(place, k))
                                       /\ Cardinality(OnStack(place, k)) = k * L}
<1>6. 0 \in T
  <2>1. OnStack(place, 0) = {} /\ 0 * L = 0
    BY <1>0 DEF OnStack
  <2>. QED
    BY <2>1, FS_EmptySet
<1>7. ASSUME NEW k \in 1 .. n, k - 1 \in T PROVE k \in T
  <2>1. PICK S, x, B : S = OnStack(place, k - 1) /\ x = StackList(k) /\ B = BlocksAt(place, x)
    OBVIOUS
  <2>2. IsFiniteSet(S) /\ Cardinality(S) = (k - 1) * L /\ (k - 1) * L \in Nat /\ k * L = (k - 1) * L + L
    <3>1. IsFiniteSet(S) /\ Cardinality(S) = (k - 1) * L
      BY <1>2, <1>7, <2>1
    <3>2. k - 1 \in Nat /\ (k - 1) * L \in Nat
      BY <1>0, <1>2
    <3>3. k * L = (k - 1) * L + L
      BY <1>0, <1>2
    <3>. QED
      BY <3>1, <3>2, <3>3
  <2>3. x \in AnyList
    BY <2>1, AnyLists
  <2>4. s[x] = L
    BY <1>1, <1>3, <2>1, StackSize
  <2>5. IsFiniteSet(B) /\ Cardinality(B) = L
    BY <1>5, <2>1, <2>3, <2>4, ListCount
  <2>6. S \cap B = {}
    <3>1. \A d \in 1 .. k - 1 : d \in Nat /\ d # k
      OBVIOUS
    <3>. QED
      BY <2>1, <3>1, AnyLists DEF OnStack, BlocksAt
  <2>7. OnStack(place, k) = S \cup B
    <3>1. \A d : d \in 1 .. k <=> d \in 1 .. k - 1 \/ d = k
      OBVIOUS
    <3>. QED
      BY <2>1, <3>1 DEF OnStack, BlocksAt
  <2>8. IsFiniteSet(S \cup B) /\ Cardinality(S \cup B) = Cardinality(S) + Cardinality(B)
    BY <2>2, <2>5, <2>6, ApartCount
  <2>9. Cardinality(S \cup B) = k * L
    BY <1>0, <2>2, <2>5, <2>8
  <2>10. k \in Nat /\ IsFiniteSet(OnStack(place, k)) /\ Cardinality(OnStack(place, k)) = k * L
    BY <2>7, <2>8, <2>9
  <2>. QED
    BY <2>10
<1> HIDE DEF T
<1>8. n \in T
  BY <1>2, <1>6, <1>7, CountUpTo
<1>. QED
  BY <1>1, <1>2, <1>8 DEF T

\* With no block in use, and no list being brought back, no block is handed out.
LEMMA NoneUsed ==
  ASSUME BlockInv, \A o \in ThreadId : fetched[o] = Nil, NumUsedBlocks = 0
  PROVE  held = {}
<1>0. L \in Nat /\ NumThreadIds \in Nat /\ ThreadId = 0 .. NumThreadIds - 1 /\ Out \notin AnyList
  BY BlockConstants
<1>1. BlockTypes
  BY DEF BlockInv
<1>2. PICK place, rank : Laid(place, rank, nextBlock, local, fetched, global, held, 0 .. buffers * L - 1)
  BY DEF BlockInv
<1>3. PICK f, s, used, total : /\ f = FirstsOf(local, fetched, global) /\ s = SizesOf(local, fetched, global)
                               /\ total = buffers * L /\ used = 0 .. total - 1
  OBVIOUS
<1>4. Layout(place, rank, nextBlock, f, s, held, used)
  BY <1>2, <1>3 DEF Laid
<1>5. total \in Nat /\ Len(global) \in Nat /\ Len(global) * L \in Nat
  <2>1. buffers \in Nat
    BY <1>1, BlockConstants DEF BlockTypes
  <2>2. Len(global) \in Nat
    BY <1>1 DEF BlockTypes
  <2>. QED
    BY <1>0, <1>3, <2>1, <2>2
<1>6. PICK W, G, w, m : /\ W = WithThreads(place, NumThreadIds) /\ G = OnStack(place, Len(global))
                        /\ w = SizesTo(NumThreadIds) /\ m = Len(global) * L
  OBVIOUS
<1>7. IsFiniteSet(W) /\ w \in Nat /\ Cardinality(W) = w
  BY <1>1, <1>2, <1>6, ThreadsCount
<1>8. IsFiniteSet(G) /\ m \in Nat /\ Cardinality(G) = m
  BY <1>1, <1>2, <1>5, <1>6, StackCount
<1>9. IsFiniteSet(used) /\ Cardinality(used) = total
  <2>1. 0 \in Int /\ total - 1 \in Int
    BY <1>5
  <2>2. IsFiniteSet(0 .. total - 1) /\ Cardinality(0 .. total - 1) = IF 0 > total - 1 THEN 0 ELSE total - 1 - 0 + 1
    BY <2>1, FS_Interval
  <2>. QED
    BY <1>3, <1>5, <2>2
<1>10. total = m + w
  <2>1. NumUsedBlocks = total - (m + w)
    BY <1>3, <1>6 DEF NumUsedBlocks
  <2>. QED
    BY <1>5, <1>7, <1>8, <2>1
<1>11. W \cap G = {} /\ held \cap (W \cup G) = {} /\ W \cup G \subseteq used /\ held \subseteq used
  <2>1. \A o \in 0 .. NumThreadIds - 1 : LocalList(o) \in AnyList /\ o \in ThreadId
    BY <1>0, AnyLists
  <2>2. \A d \in 1 .. Len(global) : StackList(d) \in AnyList /\ d \in Nat
    BY <1>5, AnyLists
  <2>3. W \cap G = {}
    BY <1>6, <2>1, <2>2, AnyLists DEF WithThreads, OnStack
  <2>4. \A b \in W \cup G : b \in Block /\ place[b] \in AnyList
    BY <1>6, <2>1, <2>2 DEF WithThreads, OnStack
  <2>5. \A b \in held : b \in Block /\ place[b] = Out
    BY <1>1, <1>4 DEF Layout, BlockTypes
  <2>6. Out # Uncut /\ Uncut \notin AnyList
    BY BlockConstants
  <2>7. \A b \in Block : place[b] # Uncut => b \in used
    BY <1>4 DEF Layout
  <2>. QED
    BY <1>0, <2>3, <2>4, <2>5, <2>6, <2>7
<1>12. IsFiniteSet(W \cup G) /\ Cardinality(W \cup G) = w + m
  BY <1>7, <1>8, <1>11, ApartCount
<1>13. W \cup G = used
  <2>1. PICK A : A = W \cup G
    OBVIOUS
  <2>2. A \in SUBSET used /\ Cardinality(used) = Cardinality(A)
    BY <1>7, <1>8, <1>9, <1>10, <1>11, <1>12, <2>1
  <2>. QED
    BY <1>9, <2>1, <2>2, FS_Subset
<1>. QED
  BY <1>11, <1>13

\* No buffer, no list.
LEMMA NothingLaid ==
  ASSUME NEW nb, nb = [b \in Block |-> Nil], NEW loc, \A o \in ThreadId : loc[o].sz = 0 /\ loc[o].head = Nil,
         NEW fet, \A o \in ThreadId : fet[o] = Nil, NEW glo, Len(glo) = 0
  PROVE  \E place, rank : Laid(place, rank, nb, loc, fet, glo, {}, {})
<1>0. Uncut \notin AnyList /\ Uncut # Out /\ L \in Nat
  BY BlockConstants
<1>1. PICK f, s, p, r : /\ f = FirstsOf(loc, fet, glo) /\ s = SizesOf(loc, fet, glo)
                        /\ p = [b \in Block |-> Uncut] /\ r = [b \in Block |-> 0]
  OBVIOUS
<1>2. f = [x \in AnyList |-> f[x]] /\ s = [x \in AnyList |-> s[x]]
  BY <1>1, AllEnds
<1>3. /\ \A o \in ThreadId : f[LocalList(o)] = Nil /\ s[LocalList(o)] = 0
      /\ \A o \in ThreadId : f[FetchedList(o)] = Nil /\ s[FetchedList(o)] = 0
      /\ \A d \in Nat : f[StackList(d)] = Nil /\ s[StackList(d)] = 0
  <2>1. \A o \in ThreadId : f[LocalList(o)] = Nil /\ s[LocalList(o)] = 0
    BY <1>1, LocalFirst, LocalSize
  <2>2. \A o \in ThreadId : f[FetchedList(o)] = Nil /\ s[FetchedList(o)] = 0
    BY <1>1, FetchedFirst, FetchedSize
  <2>3. \A d \in Nat : d \notin 1 .. Len(glo)
    OBVIOUS
  <2>4. \A d \in Nat : f[StackList(d)] = Nil /\ s[StackList(d)] = 0
    BY <1>1, <2>3, StackFirst, StackSize
  <2>. QED
    BY <2>1, <2>2, <2>4
<1>4. \A x \in AnyList : f[x] = Nil /\ s[x] = 0
  <2>1. PICK g, t : g = [x \in AnyList |-> Nil] /\ t = [x \in AnyList |-> 0]
    OBVIOUS
  <2>2. \A x \in AnyList : f[x] = g[x]
    BY <1>3, <2>1, SameLists, AnyLists
  <2>3. \A x \in AnyList : s[x] = t[x]
    BY <1>3, <2>1, SameLists, AnyLists
  <2>. QED
    BY <2>1, <2>2, <2>3
<1>5. Layout(p, r, nb, f, s, {}, {})
  <2>1. /\ p \in [Block -> AnyList \cup {Out, Uncut}] /\ r \in [Block -> Nat] /\ nb \in [Block -> Block \cup {Nil}]
        /\ f \in [AnyList -> Block \cup {Nil}] /\ s \in [AnyList -> Nat]
    BY <1>1, <1>2, <1>4
  <2>2. \A b \in Block : p[b] \notin AnyList /\ p[b] = Uncut /\ p[b] # Out
    BY <1>0, <1>1
  <2>. QED
    BY <1>4, <2>1, <2>2 DEF Layout
<1>6. Mids(loc, p, r)
  <2>1. \A o \in ThreadId : ~ (loc[o].sz > L + 1)
    BY <1>0
  <2>. QED
    BY <2>1 DEF Mids
<1>7. Laid(p, r, nb, loc, fet, glo, {}, {})
  BY <1>1, <1>5, <1>6 DEF Laid
<1>. QED
  BY <1>7

LEMMA InitBlockInv == BlockInit => BlockInv
<1>1. SUFFICES ASSUME BlockInit PROVE BlockInv
  OBVIOUS
<1>0. L \in Nat /\ MaxLists \in Nat
  BY BlockConstants
<1>2. BlockTypes
  BY <1>0, <1>1 DEF BlockInit, BlockTypes, Records
<1>3. PICK used : used = 0 .. buffers * L - 1
  OBVIOUS
<1>4. used = {} /\ held = {}
  BY <1>0, <1>1, <1>3 DEF BlockInit
<1>5. /\ \A o \in ThreadId : local[o].sz = 0 /\ local[o].head = Nil
      /\ \A o \in ThreadId : fetched[o] = Nil
      /\ Len(global) = 0 /\ nextBlock = [b \in Block |-> Nil]
  BY <1>1 DEF BlockInit
<1>6. \E place, rank : Laid(place, rank, nextBlock, local, fetched, global, {}, {})
  BY <1>5, NothingLaid
<1>. QED
  BY <1>2, <1>3, <1>4, <1>6 DEF BlockInv

LEMMA TakeBlockInv ==
  ASSUME BlockInv, NEW o \in ThreadId, Take(o)
  PROVE  BlockInv'
<1>0. BlockTypes /\ L \in Nat
  BY BlockConstants DEF BlockInv
<1>1. PICK used : used = 0 .. buffers * L - 1
  OBVIOUS
<1>2. PICK place, rank : Laid(place, rank, nextBlock, local, fetched, global, held, used)
  BY <1>1 DEF BlockInv
<1>3. PICK h, l : h = local[o].head /\ l = Rest(local[o], nextBlock)
  OBVIOUS
<1>4. /\ local \in [ThreadId -> Records] /\ local[o].sz # 0
      /\ nextBlock \in [Block -> Block \cup {Nil}]
  BY <1>0 DEF BlockTypes, Take, Records
<1>5. Popped(local[o]) = l
  BY <1>3 DEF Popped, Rest
<1>6. /\ Puts(nextBlock, h, Nil, nextBlock') /\ Puts(local, o, l, local')
      /\ held' = held \cup {h} /\ UNCHANGED <<global, buffers, fetched>>
  BY <1>3, <1>5 DEF Take, Puts
<1>7. /\ h \in Block /\ l \in Records
      /\ \E p : Laid(p, rank, nextBlock', local', fetched, global, held \cup {h}, used)
  <2>1. Puts(nextBlock, h, Nil, nextBlock') /\ Puts(local, o, l, local')
    BY <1>6
  <2>2. Gives(local, o, nextBlock, h, l)
    BY <1>3, <1>4 DEF Gives
  <2>. QED
    BY <1>2, <2>1, <2>2, PopLocal
<1>8. BlockTypes'
  BY <1>0, <1>6, <1>7 DEF BlockTypes, Puts
<1>. QED
  BY <1>1, <1>6, <1>7, <1>8 DEF BlockInv

LEMMA GetListBlockInv ==
  ASSUME BlockInv, NEW o \in ThreadId, GetList(o)
  PROVE  BlockInv'
<1>0. BlockTypes /\ L \in Nat /\ L >= 2 /\ MaxLists \in Nat
  BY BlockConstants DEF BlockInv
<1>1. PICK used : used = 0 .. buffers * L - 1
  OBVIOUS
<1>2. PICK place, rank : Laid(place, rank, nextBlock, local, fetched, global, held, used)
  BY <1>1 DEF BlockInv
<1>3. /\ fetched \in [ThreadId -> Block \cup {Nil}] /\ DOMAIN fetched = ThreadId /\ fetched[o] = Nil
      /\ global \in Seq(Block) /\ UNCHANGED <<local, held>>
  BY <1>0 DEF BlockTypes, GetList
<1>4. CASE global # <<>> /\ fetched' = [fetched EXCEPT ![o] = Head(global)] /\ global' = Tail(global)
           /\ UNCHANGED <<nextBlock, buffers>>
  <2>1. PICK v : v = Head(global)
    OBVIOUS
  <2>2. Puts(fetched, o, v, fetched')
    BY <1>4, <2>1 DEF Puts
  <2>3. /\ v \in Block /\ global' \in Seq(Block)
        /\ \E p : Laid(p, rank, nextBlock, local, fetched', global', held, used)
    BY <1>2, <1>3, <1>4, <2>1, <2>2, FetchTop
  <2>4. BlockTypes'
    BY <1>0, <1>3, <1>4, <2>1, <2>3 DEF BlockTypes
  <2>. QED
    BY <1>1, <1>3, <1>4, <2>3, <2>4 DEF BlockInv
<1>5. CASE /\ global = <<>> /\ buffers < MaxLists /\ buffers' = buffers + 1
           /\ LET first == buffers * L
                  cut == first .. first + L - 1
              IN  /\ nextBlock' = [b \in Block |->
                         IF b \in cut THEN IF b + 1 \in cut THEN b + 1 ELSE Nil ELSE nextBlock[b]]
                  /\ fetched' = [fetched EXCEPT ![o] = first]
           /\ UNCHANGED global
  <2>1. PICK a, cut : a = buffers * L /\ cut = a .. a + L - 1
    OBVIOUS
  <2>2. buffers \in Nat /\ buffers + 1 <= MaxLists
    BY <1>0, <1>5 DEF BlockTypes
  <2>3. a \in Nat /\ (buffers + 1) * L = a + L /\ (buffers + 1) * L <= MaxLists * L /\ MaxLists * L \in Nat
    <3>1. a \in Nat
      BY <1>0, <2>1, <2>2
    <3>2. (buffers + 1) * L = a + L
      BY <1>0, <2>1, <2>2
    <3>3. PICK d \in Nat : MaxLists = (buffers + 1) + d
      <4>1. MaxLists - (buffers + 1) \in Nat /\ MaxLists = (buffers + 1) + (MaxLists - (buffers + 1))
        BY <1>0, <2>2
      <4>. QED
        BY <4>1
    <3>4. MaxLists * L = (buffers + 1) * L + d * L /\ d * L \in Nat /\ (buffers + 1) * L \in Nat
      BY <1>0, <2>2, <3>3
    <3>. QED
      BY <3>1, <3>2, <3>4
  <2>4. cut \subseteq Block /\ used \cap cut = {} /\ used \cup cut = 0 .. buffers' * L - 1
    <3>1. PICK n : n = MaxLists * L
      OBVIOUS
    <3>2. n \in Nat /\ a + L <= n /\ Block = 0 .. n - 1 /\ used = 0 .. a - 1
      BY <1>1, <2>1, <2>3, <3>1 DEF Block
    <3>3. buffers' * L = a + L
      BY <1>5, <2>3
    <3>. QED
      BY <1>0, <2>1, <2>3, <3>2, <3>3
  <2>5. nextBlock' = [b \in Block |-> IF b \in cut THEN IF b + 1 \in cut THEN b + 1 ELSE Nil ELSE nextBlock[b]]
    BY <1>5, <2>1
  <2>9. Chains(nextBlock, cut, nextBlock')
    BY <2>5 DEF Chains
  <2>6. Puts(fetched, o, a, fetched')
    BY <1>5, <2>1 DEF Puts
  <2>7. \E p, r : Laid(p, r, nextBlock', local, fetched', global, held, used \cup cut)
    <3>1. Cut(a, cut, used)
      BY <2>1, <2>3, <2>4 DEF Cut
    <3>. QED
      BY <1>2, <1>3, <2>6, <2>9, <3>1, FetchCut
  <2>8. BlockTypes'
    <3>1. a \in Block
      BY <1>0, <2>1, <2>3, <2>4
    <3>2. nextBlock' \in [Block -> Block \cup {Nil}]
      <4>1. \A b \in Block : nextBlock[b] \in Block \cup {Nil}
        BY <1>0 DEF BlockTypes
      <4>2. \A b \in cut : b + 1 \in cut => b + 1 \in Block
        BY <2>4
      <4>. QED
        BY <2>5, <4>1, <4>2
    <3>3. fetched' \in [ThreadId -> Block \cup {Nil}]
      BY <1>3, <2>6, <3>1 DEF Puts
    <3>4. buffers' \in 0 .. MaxLists
      BY <1>0, <1>5, <2>2
    <3>. QED
      BY <1>0, <1>3, <1>5, <3>2, <3>3, <3>4 DEF BlockTypes
  <2>. QED
    BY <1>3, <1>5, <2>4, <2>7, <2>8 DEF BlockInv
<1>. QED
  BY <1>4, <1>5 DEF GetList

LEMMA UseListBlockInv ==
  ASSUME BlockInv, NEW o \in ThreadId, UseList(o)
  PROVE  BlockInv'
<1>0. BlockTypes /\ L \in Nat /\ L >= 2 /\ Nil \notin Block
  BY BlockConstants DEF BlockInv
<1>1. PICK used : used = 0 .. buffers * L - 1
  OBVIOUS
<1>2. PICK place, rank : Laid(place, rank, nextBlock, local, fetched, global, held, used)
  BY <1>1 DEF BlockInv
<1>3. /\ fetched \in [ThreadId -> Block \cup {Nil}] /\ local \in [ThreadId -> Records]
      /\ nextBlock \in [Block -> Block \cup {Nil}] /\ global \in Seq(Block)
      /\ fetched[o] # Nil /\ fetched[o] \in Block /\ UNCHANGED buffers
  BY <1>0 DEF BlockTypes, UseList
<1>4. Puts(fetched, o, Nil, fetched')
  BY DEF UseList, Puts
<1>16. PICK u \in ThreadId : \E l :
         /\ l = IF local[u].sz = 0 THEN [local[u] EXCEPT !.head = fetched[o], !.sz = L] ELSE local[u]
         /\ global' = IF local[u].sz = 0 THEN global ELSE <<fetched[o]>> \o global
         /\ held' = held \cup {l.head}
         /\ local' = [local EXCEPT ![u] = Popped(l)]
         /\ nextBlock' = [nextBlock EXCEPT ![l.head] = Nil]
  BY DEF UseList
<1>5. PICK l :
         /\ l = IF local[u].sz = 0 THEN [local[u] EXCEPT !.head = fetched[o], !.sz = L] ELSE local[u]
         /\ global' = IF local[u].sz = 0 THEN global ELSE <<fetched[o]>> \o global
         /\ held' = held \cup {l.head}
         /\ local' = [local EXCEPT ![u] = Popped(l)]
         /\ nextBlock' = [nextBlock EXCEPT ![l.head] = Nil]
  BY <1>16
<1>6. PICK mine : Puts(local, u, l, mine)
  BY DEF Puts
<1>7. /\ l \in Records /\ l.sz # 0
      /\ local[u].sz = 0 => l.head = fetched[o] /\ l.sz = L
      /\ local[u].sz # 0 => l = local[u]
  <2>1. local[u] \in Records
    BY <1>3
  <2>2. CASE local[u].sz = 0
    <3>1. l = [local[u] EXCEPT !.head = fetched[o], !.sz = L]
      BY <1>5, <2>2
    <3>2. PICK v, n : v = fetched[o] /\ n = L
      OBVIOUS
    <3>3. v \in Block \cup {Nil} /\ n \in 0 .. 2 * L /\ n # 0
      BY <1>0, <1>3, <3>2
    <3>4. l = [local[u] EXCEPT !.head = v, !.sz = n]
      BY <3>1, <3>2
    <3>5. l \in Records /\ l.head = v /\ l.sz = n
      BY <2>1, <3>3, <3>4 DEF Records
    <3>. QED
      BY <2>2, <3>2, <3>3, <3>5
  <2>3. CASE local[u].sz # 0
    BY <1>5, <2>1, <2>3
  <2>. QED
    BY <2>2, <2>3
<1>8. mine \in [ThreadId -> Records] /\ mine[u] = l
  BY <1>3, <1>6, <1>7 DEF Puts
<1>9. global' \in Seq(Block) /\ \E p : Laid(p, rank, nextBlock, mine, fetched', global', held, used)
  <2>1. CASE local[u].sz = 0
    <3>1. global' = global /\ l.head = fetched[o] /\ l.sz = L
      BY <1>5, <1>7, <2>1
    <3>2. \E p : Laid(p, rank, nextBlock, mine, fetched', global, held, used)
      <4>1. l \in Records /\ l.head = fetched[o] /\ l.sz = L
        BY <1>7, <3>1
      <4>. QED
        BY <1>2, <1>3, <1>4, <1>6, <2>1, <4>1, UseFetched
    <3>. QED
      BY <1>3, <3>1, <3>2
  <2>2. CASE local[u].sz # 0
    <3>1. global' = <<fetched[o]>> \o global /\ mine = local
      BY <1>3, <1>5, <1>6, <1>7, <2>2 DEF Puts
    <3>2. PICK v : v = fetched[o]
      OBVIOUS
    <3>3. v \in Block /\ global' = <<v>> \o global
      BY <1>3, <3>1, <3>2
    <3>4. global' \in Seq(Block) /\ \E p : Laid(p, rank, nextBlock, local, fetched', global', held, used)
      BY <1>2, <1>3, <1>4, <3>2, <3>3, StackFetched
    <3>. QED
      BY <3>1, <3>4
  <2>. QED
    BY <2>1, <2>2
<1>10. PICK p : Laid(p, rank, nextBlock, mine, fetched', global', held, used)
  BY <1>9
<1>11. PICK h, rest : h = l.head /\ rest = Rest(l, nextBlock)
  OBVIOUS
<1>12. Popped(l) = rest
  BY <1>11 DEF Popped, Rest
<1>13. Puts(mine, u, rest, local') /\ Puts(nextBlock, h, Nil, nextBlock') /\ held' = held \cup {h}
  <2>1. local' = [local EXCEPT ![u] = rest]
    BY <1>5, <1>12
  <2>2. local' = [mine EXCEPT ![u] = rest]
    BY <1>3, <1>6, <2>1 DEF Puts
  <2>. QED
    BY <1>5, <1>11, <2>2 DEF Puts
<1>14. /\ h \in Block /\ rest \in Records
       /\ \E q : Laid(q, rank, nextBlock', local', fetched', global', held \cup {h}, used)
  <2>1. Gives(mine, u, nextBlock, h, rest)
    BY <1>7, <1>8, <1>11 DEF Gives
  <2>2. Puts(mine, u, rest, local') /\ Puts(nextBlock, h, Nil, nextBlock')
    BY <1>13
  <2>3. /\ h \in Block /\ rest \in Records
        /\ \E q : Laid(q, rank, nextBlock', local', fetched', global', held \cup {h}, used)
    BY <1>10, <2>1, <2>2, PopLocal
  <2>. QED
    BY <2>3
<1>15. BlockTypes'
  <2>1. local' \in [ThreadId -> Records]
    BY <1>8, <1>13, <1>14 DEF Puts
  <2>2. nextBlock' \in [Block -> Block \cup {Nil}] /\ fetched' \in [ThreadId -> Block \cup {Nil}]
    BY <1>3, <1>4, <1>13 DEF Puts
  <2>. QED
    BY <1>0, <1>3, <1>9, <1>13, <1>14, <2>1, <2>2 DEF BlockTypes
<1>. QED
  BY <1>1, <1>3, <1>13, <1>14, <1>15 DEF BlockInv

LEMMA FreeBlockInv ==
  ASSUME BlockInv, NEW o \in ThreadId, NEW b \in Block, Free(o, b)
  PROVE  BlockInv'
<1>0. BlockTypes /\ L \in Nat /\ L >= 2 /\ Nil \notin Block
  BY BlockConstants DEF BlockInv
<1>1. PICK used : used = 0 .. buffers * L - 1
  OBVIOUS
<1>2. PICK place, rank : Laid(place, rank, nextBlock, local, fetched, global, held, used)
  BY <1>1 DEF BlockInv
<1>3. /\ local \in [ThreadId -> Records] /\ local[o].sz \in 0 .. 2 * L
      /\ nextBlock \in [Block -> Block \cup {Nil}] /\ global \in Seq(Block)
      /\ b \in held /\ UNCHANGED <<buffers, fetched>> /\ held' = held \ {b}
  BY <1>0 DEF BlockTypes, Free, Records
<1>4. PICK mid : mid = IF local[o].sz = L + 1 THEN local[o].head ELSE local[o].mid
  OBVIOUS
<1>5. PICK mine, links, stack :
         IF local[o].sz = 2 * L
         THEN /\ Puts(local, o, [head |-> local[o].head, mid |-> Nil, sz |-> L], mine)
              /\ Puts(nextBlock, mid, Nil, links) /\ stack = <<nextBlock[mid]>> \o global
         ELSE mine = local /\ links = nextBlock /\ stack = global
  BY DEF Puts
<1>6. /\ mine \in [ThreadId -> Records] /\ stack \in Seq(Block) /\ mine[o].sz < 2 * L
      /\ mine[o].head = local[o].head
      /\ \E p, r : Laid(p, r, links, mine, fetched, stack, held, used)
  <2>1. CASE local[o].sz = 2 * L
    <3>1. PICK l : l = [head |-> local[o].head, mid |-> Nil, sz |-> L]
      OBVIOUS
    <3>2. mid = local[o].mid
      BY <1>0, <1>4, <2>1
    <3>3. Puts(local, o, l, mine) /\ Puts(nextBlock, mid, Nil, links) /\ stack = <<nextBlock[mid]>> \o global
      BY <1>5, <2>1, <3>1
    <3>6. l \in Records /\ l.head = local[o].head /\ l.sz = L
      BY <1>0, <1>3, <3>1 DEF Records
    <3>4. /\ l \in Records /\ stack \in Seq(Block)
          /\ \E p, r : Laid(p, r, links, mine, fetched, stack, held, used)
      <4>1. Halves(local, o, mid, l) /\ Stacks(nextBlock, mid, global, stack)
        BY <1>3, <2>1, <3>2, <3>3, <3>6 DEF Halves, Stacks
      <4>. QED
        <5>1. Puts(local, o, l, mine) /\ Puts(nextBlock, mid, Nil, links)
          BY <3>3
        <5>2. stack \in Seq(Block) /\ \E p, r : Laid(p, r, links, mine, fetched, stack, held, used)
          BY <1>2, <4>1, <5>1, SpillLocal
        <5>. QED
          BY <3>6, <5>2
    <3>5. mine \in [ThreadId -> Records] /\ mine[o] = l
      BY <1>3, <3>3, <3>4 DEF Puts
    <3>. QED
      BY <1>0, <3>1, <3>4, <3>5
  <2>2. CASE local[o].sz # 2 * L
    BY <1>0, <1>2, <1>3, <1>5, <2>2
  <2>. QED
    BY <2>1, <2>2
<1>7. PICK p, r : Laid(p, r, links, mine, fetched, stack, held, used)
  BY <1>6
<1>8. PICK mark, l : /\ mark = IF mine[o].sz = L + 1 THEN mine[o].head ELSE mine[o].mid
                     /\ l = [head |-> b, mid |-> mark, sz |-> mine[o].sz + 1]
  OBVIOUS
<1>9. Puts(mine, o, l, local') /\ Puts(links, b, mine[o].head, nextBlock') /\ global' = stack
  <2>1. /\ nextBlock' = [c \in Block |-> IF c = b THEN local[o].head
                                         ELSE IF local[o].sz = 2 * L /\ c = mid THEN Nil ELSE nextBlock[c]]
        /\ global' = IF local[o].sz = 2 * L THEN <<nextBlock[mid]>> \o global ELSE global
        /\ local' = [local EXCEPT ![o] = [head |-> b, mid |-> IF local[o].sz = 2 * L THEN Nil ELSE mid,
                                          sz |-> (IF local[o].sz = 2 * L THEN L ELSE local[o].sz) + 1]]
    BY <1>4 DEF Free
  <2>2. CASE local[o].sz = 2 * L
    <3>1. /\ mine = [local EXCEPT ![o] = [head |-> local[o].head, mid |-> Nil, sz |-> L]]
          /\ links = [nextBlock EXCEPT ![mid] = Nil] /\ stack = <<nextBlock[mid]>> \o global
      BY <1>5, <2>2 DEF Puts
    <3>2. mine[o] = [head |-> local[o].head, mid |-> Nil, sz |-> L]
      BY <1>3, <3>1
    <3>3. L # L + 1
      BY <1>0
    <3>4. mark = Nil /\ l = [head |-> b, mid |-> Nil, sz |-> L + 1]
      BY <1>8, <3>2, <3>3
    <3>5. local' = [mine EXCEPT ![o] = l]
      BY <1>3, <2>1, <2>2, <3>1, <3>4
    <3>6. nextBlock' = [links EXCEPT ![b] = mine[o].head]
      <4>1. DOMAIN links = Block /\ \A c \in Block : links[c] = IF c = mid THEN Nil ELSE nextBlock[c]
        BY <1>3, <3>1
      <4>2. mine[o].head = local[o].head
        BY <3>2
      <4>. QED
        BY <1>3, <2>1, <2>2, <4>1, <4>2
    <3>. QED
      BY <2>1, <2>2, <3>1, <3>5, <3>6 DEF Puts
  <2>3. CASE local[o].sz # 2 * L
    <3>1. mine = local /\ links = nextBlock /\ stack = global
      BY <1>5, <2>3
    <3>2. l = [head |-> b, mid |-> mid, sz |-> local[o].sz + 1]
      BY <1>4, <1>8, <3>1
    <3>3. local' = [mine EXCEPT ![o] = l]
      BY <2>1, <2>3, <3>1, <3>2
    <3>4. nextBlock' = [links EXCEPT ![b] = mine[o].head]
      BY <1>3, <2>1, <2>3, <3>1
    <3>. QED
      BY <2>1, <2>3, <3>1, <3>3, <3>4 DEF Puts
  <2>. QED
    BY <2>2, <2>3
<1>10. /\ l \in Records
       /\ \E q, s : Laid(q, s, nextBlock', local', fetched, global', held \ {b}, used)
  <2>1. mine[o] \in Records
    BY <1>6
  <2>2. /\ l \in Records /\ l.head = b /\ l.sz = mine[o].sz + 1
        /\ l.mid = IF mine[o].sz = L + 1 THEN mine[o].head ELSE mine[o].mid
    BY <1>0, <1>6, <1>8, <2>1 DEF Records
  <2>3. \E q, s : Laid(q, s, nextBlock', local', fetched, global', held \ {b}, used)
    <3>1. Grows(mine, o, b, l) /\ Links(links, b, mine, o, nextBlock')
      BY <1>6, <1>9, <2>2 DEF Grows, Links, Puts
    <3>2. \E q, s : Laid(q, s, nextBlock', local', fetched, stack, held \ {b}, used)
      BY <1>3, <1>7, <1>9, <3>1, PushLocal
    <3>. QED
      BY <1>3, <1>9, <3>2
  <2>. QED
    BY <2>2, <2>3
<1>11. BlockTypes'
  <2>1. local' \in [ThreadId -> Records] /\ global' \in Seq(Block)
    BY <1>6, <1>9, <1>10 DEF Puts
  <2>2. nextBlock' \in [Block -> Block \cup {Nil}]
    <3>1. nextBlock' = [c \in Block |-> IF c = b THEN local[o].head
                                        ELSE IF local[o].sz = 2 * L /\ c = mid THEN Nil ELSE nextBlock[c]]
      BY <1>4 DEF Free
    <3>2. local[o].head \in Block \cup {Nil}
      BY <1>3 DEF Records
    <3>. QED
      BY <1>3, <3>1, <3>2
  <2>. QED
    BY <1>0, <1>3, <2>1, <2>2 DEF BlockTypes
<1>. QED
  BY <1>1, <1>3, <1>10, <1>11 DEF BlockInv

LEMMA ClearBlockInv ==
  ASSUME BlockInv, Clear
  PROVE  BlockInv'
<1>0. BlockTypes /\ L \in Nat /\ MaxLists \in Nat
  BY BlockConstants DEF BlockInv
<1>1. /\ \A o \in ThreadId : fetched'[o] = Nil
      /\ \A o \in ThreadId : local'[o].sz = 0 /\ local'[o].head = Nil
      /\ Len(global') = 0 /\ nextBlock' = [b \in Block |-> Nil] /\ buffers' = 0
  BY DEF Clear
<1>2. held' = {}
  BY NoneUsed DEF Clear
<1>3. \E place, rank : Laid(place, rank, nextBlock', local', fetched', global', {}, {})
  BY <1>1, NothingLaid
<1>4. 0 .. buffers' * L - 1 = {}
  BY <1>0, <1>1
<1>5. BlockTypes'
  BY <1>0, <1>1, <1>2 DEF BlockTypes, Clear, Records
<1>. QED
  BY <1>2, <1>3, <1>4, <1>5 DEF BlockInv

\* First and SizeOf are the layout's.
LEMMA ListMeasures ==
  ASSUME BlockTypes, NEW x,
         \/ \E o \in ThreadId : x = LocalList(o)
         \/ \E o \in ThreadId : x = FetchedList(o)
         \/ \E d \in 1 .. Len(global) : x = StackList(d)
  PROVE  /\ FirstsOf(local, fetched, global)[x] = First(x)
         /\ SizesOf(local, fetched, global)[x] = SizeOf(x)
<1>0. L \in Nat /\ Nil \notin Block /\ Len(global) \in Nat /\ \A o \in ThreadId : local[o].sz \in Nat
  BY BlockConstants DEF BlockTypes, Records
<1>1. PICK f, s : f = FirstsOf(local, fetched, global) /\ s = SizesOf(local, fetched, global)
  OBVIOUS
<1> SUFFICES f[x] = First(x) /\ s[x] = SizeOf(x)
  BY <1>1
<1>2. CASE \E o \in ThreadId : x = LocalList(o)
  <2>1. PICK o \in ThreadId : x = LocalList(o)
    BY <1>2
  <2>2. f[x] = local[o].head /\ s[x] = local[o].sz
    BY <1>1, <2>1, LocalFirst, LocalSize
  <2>3. First(x) = local[o].head /\ SizeOf(x) = local[o].sz
    BY <2>1 DEF First, SizeOf, LocalList
  <2>. QED
    BY <2>2, <2>3
<1>3. CASE \E o \in ThreadId : x = FetchedList(o)
  <2>1. PICK o \in ThreadId : x = FetchedList(o)
    BY <1>3
  <2>2. f[x] = fetched[o] /\ s[x] = IF fetched[o] = Nil THEN 0 ELSE L
    BY <1>1, <2>1, FetchedFirst, FetchedSize
  <2>3. x[1] = "fetched" /\ x[2] = o
    BY <2>1 DEF FetchedList
  <2>4. First(x) = fetched[o]
    BY <2>3 DEF First
  <2>5. SizeOf(x) = IF fetched[o] = Nil THEN 0 ELSE L
    BY <2>3 DEF SizeOf
  <2>. QED
    BY <2>2, <2>4, <2>5
<1>4. CASE \E d \in 1 .. Len(global) : x = StackList(d)
  <2>1. PICK d \in 1 .. Len(global) : x = StackList(d)
    BY <1>4
  <2>2. f[x] = global[Len(global) + 1 - d] /\ s[x] = L
    BY <1>0, <1>1, <2>1, StackFirst, StackSize
  <2>3. x[1] = "global" /\ x[2] = d
    BY <2>1 DEF StackList
  <2>4. First(x) = global[Len(global) + 1 - d] /\ SizeOf(x) = L
    BY <2>3 DEF First, SizeOf
  <2>. QED
    BY <2>2, <2>4
<1>. QED
  BY <1>2, <1>3, <1>4

\* On a list the walk meets exactly the blocks placed there, and it says how many they are.
LEMMA OnBlocks ==
  ASSUME BlockTypes, NEW place, NEW rank,
         Laid(place, rank, nextBlock, local, fetched, global, held, 0 .. buffers * L - 1), NEW x \in ListId
  PROVE  x \in AnyList /\ On(x) = BlocksAt(place, x) /\ Cardinality(On(x)) = SizeOf(x)
<1>0. L \in Nat /\ Nil \notin Block /\ Len(global) \in Nat /\ \A o \in ThreadId : local[o].sz \in Nat
  BY BlockConstants DEF BlockTypes, Records
<1>1. PICK f, s, used : /\ f = FirstsOf(local, fetched, global) /\ s = SizesOf(local, fetched, global)
                        /\ used = 0 .. buffers * L - 1
  OBVIOUS
<1>2. Layout(place, rank, nextBlock, f, s, held, used)
  BY <1>1 DEF Laid
<1>3. \/ \E o \in ThreadId : x = LocalList(o)
      \/ \E o \in ThreadId : x = FetchedList(o)
      \/ \E d \in 1 .. Len(global) : x = StackList(d)
  BY DEF ListId, AnyListId, LocalList, FetchedList, StackList
<1>4. x \in AnyList
  BY <1>0, <1>3, AnyLists
<1>5. f[x] = First(x) /\ s[x] = SizeOf(x)
  BY <1>1, <1>3, ListMeasures
<1>6. PICK n : n = IF x[1] = "local" THEN SizeOf(x) ELSE L + 1
  OBVIOUS
<1>7. n \in Nat /\ s[x] <= n /\ On(x) = Walk(f[x], n)
  <2>1. SizeOf(x) \in Nat
    BY <1>2, <1>4, <1>5 DEF Layout
  <2>2. On(x) = Walk(f[x], n)
    BY <1>5, <1>6 DEF On
  <2>3. CASE x[1] = "local"
    BY <1>5, <1>6, <2>1, <2>2, <2>3
  <2>4. CASE x[1] # "local"
    <3>1. SizeOf(x) = 0 \/ SizeOf(x) = L
      <4>1. \A o \in ThreadId : x # LocalList(o)
        BY <2>4 DEF LocalList
      <4>2. CASE \E o \in ThreadId : x = FetchedList(o)
        BY <1>1, <1>5, <4>2, FetchedSize
      <4>3. CASE \E d \in 1 .. Len(global) : x = StackList(d)
        BY <1>0, <1>1, <1>5, <4>3, StackSize
      <4>. QED
        BY <1>3, <4>1, <4>2, <4>3
    <3>. QED
      BY <1>0, <1>5, <1>6, <2>2, <2>4, <3>1
  <2>. QED
    BY <2>3, <2>4
<1>8. Walk(f[x], n) = BlocksAt(place, x)
  BY <1>2, <1>4, <1>7, Walked
<1>9. Cardinality(BlocksAt(place, x)) = s[x]
  BY <1>2, <1>4, ListCount
<1>. QED
  BY <1>4, <1>5, <1>7, <1>8, <1>9

\* A block on a list is on one there is.
LEMMA ListThere ==
  ASSUME BlockTypes, NEW place, NEW rank,
         Laid(place, rank, nextBlock, local, fetched, global, held, 0 .. buffers * L - 1),
         NEW b \in Block, place[b] \in AnyList
  PROVE  place[b] \in ListId
<1>1. PICK f, s, used : /\ f = FirstsOf(local, fetched, global) /\ s = SizesOf(local, fetched, global)
                        /\ used = 0 .. buffers * L - 1
  OBVIOUS
<1>2. Layout(place, rank, nextBlock, f, s, held, used)
  BY <1>1 DEF Laid
<1>3. s[place[b]] # 0
  <2>1. rank[b] \in Nat /\ rank[b] < s[place[b]]
    BY <1>2 DEF Layout
  <2>. QED
    BY <2>1
<1>4. \A d \in Nat : place[b] = StackList(d) => d \in 1 .. Len(global)
  BY <1>1, <1>3, StackSize
<1>5. \/ \E o \in ThreadId : place[b] = LocalList(o)
      \/ \E o \in ThreadId : place[b] = FetchedList(o)
      \/ \E d \in 1 .. Len(global) : place[b] = StackList(d)
  BY <1>4, AnyLists
<1>6. SizeOf(place[b]) # 0
  BY <1>1, <1>3, <1>5, ListMeasures
<1>7. place[b] \in AnyListId
  BY <1>4, AnyLists DEF AnyListId, LocalList, FetchedList, StackList
<1>8. \A x \in AnyListId : SizeOf(x) # 0 => x \in ListId
  BY DEF ListId
<1>. QED
  BY <1>6, <1>7, <1>8

LEMMA BlockInvAccounts == BlockInv => BlocksAccounted
<1>1. SUFFICES ASSUME BlockInv PROVE BlocksAccounted
  OBVIOUS
<1>2. BlockTypes
  BY <1>1 DEF BlockInv
<1>3. PICK place, rank : Laid(place, rank, nextBlock, local, fetched, global, held, 0 .. buffers * L - 1)
  BY <1>1 DEF BlockInv
<1>4. PICK f, s, used : /\ f = FirstsOf(local, fetched, global) /\ s = SizesOf(local, fetched, global)
                        /\ used = 0 .. buffers * L - 1
  OBVIOUS
<1>5. Layout(place, rank, nextBlock, f, s, held, used)
  BY <1>3, <1>4 DEF Laid
<1>6. \A x \in ListId : x \in AnyList /\ On(x) = BlocksAt(place, x) /\ Cardinality(On(x)) = SizeOf(x)
  BY <1>2, <1>3, OnBlocks
<1>7. \A b \in held : b \in Block /\ place[b] = Out
  BY <1>2, <1>5 DEF BlockTypes, Layout
<1>8. used \subseteq Block
  <2>1. PICK n, k : n = MaxLists * L /\ k = buffers * L
    OBVIOUS
  <2>2. buffers \in Nat /\ MaxLists \in Nat /\ L \in Nat /\ buffers <= MaxLists
    BY <1>2, BlockConstants DEF BlockTypes
  <2>3. n = k + (MaxLists - buffers) * L /\ n \in Nat /\ k \in Nat /\ (MaxLists - buffers) * L \in Nat
    <3>1. PICK d \in Nat : MaxLists = buffers + d
      <4>1. MaxLists - buffers \in Nat /\ MaxLists = buffers + (MaxLists - buffers)
        BY <2>2
      <4>. QED
        BY <4>1
    <3>2. MaxLists - buffers = d
      BY <2>2, <3>1
    <3>3. MaxLists * L = buffers * L + d * L /\ d * L \in Nat /\ buffers * L \in Nat
      BY <2>2, <3>1
    <3>. QED
      BY <2>1, <3>2, <3>3
  <2>4. k <= n /\ Block = 0 .. n - 1 /\ used = 0 .. k - 1
    BY <1>4, <2>1, <2>3 DEF Block
  <2>. QED
    BY <2>3, <2>4
<1>9. ASSUME NEW x \in ListId
      PROVE  /\ Cardinality(On(x)) = SizeOf(x) /\ On(x) \cap held = {}
             /\ \A y \in ListId \ {x} : On(x) \cap On(y) = {}
  <2>1. On(x) \cap held = {}
    BY <1>6, <1>7, BlockConstants DEF BlocksAt
  <2>2. \A y \in ListId \ {x} : On(x) \cap On(y) = {}
    BY <1>6 DEF BlocksAt
  <2>. QED
    BY <1>6, <2>1, <2>2
<1>10. held \cup UNION {On(x) : x \in ListId} = used
  <2>1. ASSUME NEW b \in held PROVE b \in used
    BY <1>5, <1>7, BlockConstants DEF Layout
  <2>2. ASSUME NEW x \in ListId, NEW b \in On(x) PROVE b \in used
    <3>1. b \in Block /\ place[b] = x /\ x \in AnyList
      BY <1>6, <2>2 DEF BlocksAt
    <3>. QED
      BY <1>5, <3>1, BlockConstants DEF Layout
  <2>3. ASSUME NEW b \in used PROVE b \in held \/ \E x \in ListId : b \in On(x)
    <3>1. b \in Block /\ place[b] # Uncut /\ place[b] \in AnyList \cup {Out, Uncut}
      BY <1>5, <1>8, <2>3 DEF Layout
    <3>2. CASE place[b] = Out
      BY <1>5, <3>1, <3>2 DEF Layout
    <3>3. CASE place[b] \in AnyList
      <4>1. place[b] \in ListId
        BY <1>2, <1>3, <3>1, <3>3, ListThere
      <4>2. b \in BlocksAt(place, place[b])
        BY <3>1 DEF BlocksAt
      <4>. QED
        BY <1>6, <4>1, <4>2
    <3>. QED
      BY <3>1, <3>2, <3>3
  <2>4. \A b : b \in UNION {On(x) : x \in ListId} <=> \E x \in ListId : b \in On(x)
    OBVIOUS
  <2>. QED
    BY <2>1, <2>2, <2>3, <2>4
<1>. QED
  BY <1>4, <1>9, <1>10 DEF BlocksAccounted

(* Every block has one place, and every list the length it says: the        *)
(* inductive invariant of the allocator (take, get_list, free, clear).      *)
THEOREM BlockInvHolds == BlockSpec => []BlockInv
<1>1. BlockInit => BlockInv
  BY InitBlockInv
<1>2. BlockInv /\ [BlockNext]_blockVars => BlockInv'
  <2>1. SUFFICES ASSUME BlockInv, [BlockNext]_blockVars PROVE BlockInv'
    OBVIOUS
  <2>2. ASSUME NEW o \in ThreadId, Take(o) PROVE BlockInv'
    BY <2>1, <2>2, TakeBlockInv
  <2>3. ASSUME NEW o \in ThreadId, GetList(o) PROVE BlockInv'
    BY <2>1, <2>3, GetListBlockInv
  <2>4. ASSUME NEW o \in ThreadId, UseList(o) PROVE BlockInv'
    BY <2>1, <2>4, UseListBlockInv
  <2>5. ASSUME NEW o \in ThreadId, NEW b \in Block, Free(o, b) PROVE BlockInv'
    BY <2>1, <2>5, FreeBlockInv
  <2>6. CASE Clear
    BY <2>1, <2>6, ClearBlockInv
  <2>7. CASE UNCHANGED blockVars
    BY <2>1, <2>7 DEF BlockInv, BlockTypes, blockVars
  <2>. QED
    BY <2>1, <2>2, <2>3, <2>4, <2>5, <2>6, <2>7 DEF BlockNext
<1>. QED
  BY <1>1, <1>2, PTL DEF BlockSpec

(* No block is lost or in two places, for any number of threads and         *)
(* buffers and any list length from 2.                                      *)
THEOREM BlocksStayAccounted == BlockSpec => []BlocksAccounted
BY BlockInvHolds, BlockInvAccounts, PTL

-----------------------------------------------------------------------------
(* Buffers. *)

LEMMA PowerFacts ==
  /\ Pow2[0] = 1 /\ \A k \in Nat : Pow2[k + 1] = 2 * Pow2[k]
  /\ \A k \in Nat : Pow2[k] \in Nat /\ Pow2[k] > k
  /\ \A k, l \in Nat : k <= l => Pow2[k] <= Pow2[l]
<1>1. PICK P : P = CHOOSE h : h = [k \in Nat |-> IF k = 0 THEN 1 ELSE 2 * h[k - 1]]
  OBVIOUS
<1>2. Pow2 = P
  BY <1>1 DEF Pow2
<1>. QED
  BY <1>1, <1>2, PowersExist, PowersMonotone

\* The pool sizes are powers of two, one after the other.
LEMMA SizesArePowers ==
  \E a \in Nat : /\ Sizes \in Seq(Nat) /\ Len(Sizes) \in Nat /\ Len(Sizes) > 0 /\ DOMAIN Sizes = 1 .. Len(Sizes)
                 /\ \A i \in DOMAIN Sizes : Sizes[i] = Pow2[a + i - 1]
<1>1. /\ Sizes \in Seq(Nat) /\ Len(Sizes) > 0 /\ Len(Sizes) \in Nat /\ DOMAIN Sizes = 1 .. Len(Sizes)
      /\ \A i \in 2 .. Len(Sizes) : Sizes[i] = 2 * Sizes[i - 1]
  BY PoolAssumption
<1>2. PICK a \in Nat : Sizes[1] = Pow2[a]
  <2>1. Sizes[1] \in Nat
    BY <1>1
  <2>. QED
    BY <2>1, PoolAssumption
<1> DEFINE T == {m \in Nat : m < Len(Sizes) => Sizes[m + 1] = Pow2[a + m]}
<1>3. 0 \in T
  BY <1>2
<1>4. ASSUME NEW m \in 1 .. Len(Sizes), m - 1 \in T PROVE m \in T
  <2>1. SUFFICES ASSUME m < Len(Sizes) PROVE Sizes[m + 1] = Pow2[a + m]
    BY <1>1
  <2>2. m + 1 \in 2 .. Len(Sizes) /\ (m + 1) - 1 = m /\ m - 1 < Len(Sizes) /\ (m - 1) + 1 = m
    BY <1>1, <2>1
  <2>3. Sizes[m] = Pow2[a + (m - 1)]
    BY <1>4, <2>2
  <2>4. a + (m - 1) \in Nat /\ (a + (m - 1)) + 1 = a + m
    BY <1>1
  <2>. QED
    BY <1>1, <2>2, <2>3, <2>4, PowerFacts
<1> HIDE DEF T
<1>5. \A m \in 0 .. Len(Sizes) : m \in T
  BY <1>1, <1>3, <1>4, CountUp
<1>6. ASSUME NEW i \in DOMAIN Sizes PROVE Sizes[i] = Pow2[a + i - 1]
  <2>1. i - 1 \in 0 .. Len(Sizes) /\ i - 1 < Len(Sizes) /\ (i - 1) + 1 = i /\ a + (i - 1) = a + i - 1
    BY <1>1
  <2>2. i - 1 \in T
    BY <1>5, <2>1
  <2>. QED
    BY <2>1, <2>2 DEF T
<1>. QED
  BY <1>1, <1>6

LEMMA BucketFacts ==
  ASSUME NEW n \in Nat, n <= MaxSize
  PROVE  /\ Bucket(n) \in DOMAIN Sizes /\ Sizes[Bucket(n)] \in Nat
         /\ n <= Sizes[Bucket(n)] /\ \A k \in 1 .. Bucket(n) - 1 : n > Sizes[k]
<1>1. /\ Sizes \in Seq(Nat) /\ Len(Sizes) \in Nat /\ Len(Sizes) > 0 /\ DOMAIN Sizes = 1 .. Len(Sizes)
      /\ \A k \in DOMAIN Sizes : Sizes[k] \in Nat
  BY SizesArePowers
<1> DEFINE T == {i \in DOMAIN Sizes : n <= Sizes[i]}
<1>2. Len(Sizes) \in T
  BY <1>1 DEF MaxSize
<1>3. T \in SUBSET Nat /\ T # {}
  BY <1>1, <1>2
<1>4. PICK i \in T : \A k \in T : i <= k
  <2> HIDE DEF T
  <2>. QED
    BY <1>3, LeastNat
<1>5. \A k \in 1 .. i - 1 : n > Sizes[k]
  <2>1. SUFFICES ASSUME NEW k \in 1 .. i - 1 PROVE n > Sizes[k]
    OBVIOUS
  <2>2. k \in DOMAIN Sizes /\ ~ (i <= k)
    BY <1>1
  <2>3. ~ (n <= Sizes[k]) /\ Sizes[k] \in Nat
    BY <1>1, <1>4, <2>2
  <2>. QED
    BY <2>3
<1>6. \E k \in DOMAIN Sizes : n <= Sizes[k] /\ \A x \in 1 .. k - 1 : n > Sizes[x]
  BY <1>5
<1>7. Bucket(n) \in DOMAIN Sizes /\ n <= Sizes[Bucket(n)] /\ \A k \in 1 .. Bucket(n) - 1 : n > Sizes[k]
  BY <1>6 DEF Bucket
<1>. QED
  BY <1>1, <1>7

\* A buffer freed by its logarithm goes to the pool its size came from.
LEMMA SameBucket ==
  ASSUME NEW n \in Nat, n <= Pow2[SizeBits]
  PROVE  /\ Pow2[LogUp(n)] \in Nat /\ n <= Pow2[LogUp(n)]
         /\ Pow2[LogUp(n)] <= MaxSize => n <= MaxSize /\ Bucket(Pow2[LogUp(n)]) = Bucket(n)
<1>1. PICK a \in Nat : /\ Sizes \in Seq(Nat) /\ Len(Sizes) \in Nat /\ Len(Sizes) > 0 /\ DOMAIN Sizes = 1 .. Len(Sizes)
                       /\ \A i \in DOMAIN Sizes : Sizes[i] = Pow2[a + i - 1]
  BY SizesArePowers
<1>2. MaxSize \in Nat
  BY <1>1 DEF MaxSize
<1> DEFINE T == {k \in Nat : n <= Pow2[k]}
<1>3. n \in T
  BY PowerFacts
<1>4. T \in SUBSET Nat /\ T # {}
  BY <1>3
<1>5. PICK e \in T : \A k \in T : e <= k
  <2> HIDE DEF T
  <2>. QED
    BY <1>4, LeastNat
<1>6. e \in 0 .. SizeBits /\ n <= Pow2[e] /\ (e = 0 \/ n > Pow2[e - 1])
  <2>1. ASSUME e # 0 PROVE n > Pow2[e - 1]
    <3>1. e - 1 \in Nat /\ ~ (e <= e - 1)
      BY <2>1
    <3>2. ~ (n <= Pow2[e - 1]) /\ Pow2[e - 1] \in Nat
      BY <1>5, <3>1, PowerFacts
    <3>. QED
      BY <3>2
  <2>2. SizeBits \in T
    BY PoolAssumption
  <2>. QED
    BY <1>5, <2>1, <2>2, PoolAssumption
<1>7. \E k \in 0 .. SizeBits : n <= Pow2[k] /\ (k = 0 \/ n > Pow2[k - 1])
  BY <1>6
<1> DEFINE G == LogUp(n)
<1>8. G \in 0 .. SizeBits /\ SizeBits \in Nat /\ n <= Pow2[G] /\ (G = 0 \/ n > Pow2[G - 1])
  <2>1. G = CHOOSE k \in 0 .. SizeBits : n <= Pow2[k] /\ (k = 0 \/ n > Pow2[k - 1])
    BY DEF LogUp
  <2> HIDE DEF G
  <2>. QED
    BY <1>7, <2>1, PoolAssumption
<1> HIDE DEF G, T
<1>9. PICK N \in Nat : N = Pow2[G]
  BY <1>8, PowerFacts
<1>10. ASSUME N <= MaxSize PROVE n <= MaxSize /\ Bucket(N) = Bucket(n)
  <2>1. n <= MaxSize
    BY <1>2, <1>8, <1>9, <1>10
  <2>2. PICK i : i = Bucket(n)
    OBVIOUS
  <2>3. i \in DOMAIN Sizes /\ Sizes[i] \in Nat /\ n <= Sizes[i] /\ \A k \in 1 .. i - 1 : n > Sizes[k]
    BY <2>1, <2>2, BucketFacts
  <2>4. a + i - 1 \in Nat /\ Sizes[i] = Pow2[a + i - 1]
    BY <1>1, <2>3
  <2>5. G <= a + i - 1
    <3>1. SUFFICES ASSUME G > a + i - 1 PROVE FALSE
      BY <1>8, <2>4
    <3>2. G # 0 /\ G - 1 \in Nat /\ a + i - 1 <= G - 1
      BY <1>8, <2>4, <3>1
    <3>3. Pow2[a + i - 1] <= Pow2[G - 1] /\ Pow2[G - 1] \in Nat
      BY <2>4, <3>2, PowerFacts
    <3>. QED
      BY <1>8, <2>3, <2>4, <3>2, <3>3
  <2>6. N <= Sizes[i]
    BY <1>8, <1>9, <2>4, <2>5, PowerFacts
  <2>7. PICK l : l = Bucket(N)
    OBVIOUS
  <2>8. l \in DOMAIN Sizes /\ N <= Sizes[l] /\ \A k \in 1 .. l - 1 : N > Sizes[k]
    BY <1>10, <2>7, BucketFacts
  <2>9. ~ (i < l)
    <3>1. SUFFICES ASSUME i < l PROVE FALSE
      OBVIOUS
    <3>2. i \in 1 .. l - 1
      BY <1>1, <2>3, <2>8, <3>1
    <3>. QED
      BY <2>3, <2>6, <2>8, <3>2
  <2>10. ~ (l < i)
    <3>1. SUFFICES ASSUME l < i PROVE FALSE
      OBVIOUS
    <3>2. l \in 1 .. i - 1 /\ Sizes[l] \in Nat
      BY <1>1, <2>3, <2>8, <3>1
    <3>3. n > Sizes[l] /\ n <= N /\ N <= Sizes[l]
      BY <1>8, <1>9, <2>3, <2>8, <3>2
    <3>. QED
      BY <3>2, <3>3
  <2>11. i = l
    BY <1>1, <2>3, <2>8, <2>9, <2>10
  <2>. QED
    BY <2>1, <2>2, <2>7, <2>11
<1>. QED
  BY <1>8, <1>9, <1>10 DEF G

Mult(x) == \E y \in Nat : x = HeaderSize * y

LEMMA RoundUpFacts ==
  ASSUME NEW n \in Nat, NEW m \in Nat \ {0}
  PROVE  /\ RoundUp(n, m) \in Nat /\ n <= RoundUp(n, m) /\ RoundUp(n, m) < n + m
         /\ \E y \in Nat : RoundUp(n, m) = m * y
<1>1. PICK x \in Nat : x = n + m - 1
  OBVIOUS
<1>2. PICK y \in Nat : y = x \div m
  OBVIOUS
<1>3. x = m * y + (x % m) /\ (x % m) \in 0 .. m - 1
  <2>1. x = m * (x \div m) + (x % m) /\ (x % m) \in 0 .. m - 1
    BY SMTT(60)
  <2>. QED
    BY <1>2, <2>1
<1>4. RoundUp(n, m) = m * y
  BY <1>1, <1>2 DEF RoundUp
<1>5. PICK r \in Int : r = m * y
  OBVIOUS
<1>6. r = x - (x % m) /\ n <= r /\ r < n + m
  BY <1>1, <1>3, <1>5
<1>. QED
  BY <1>4, <1>5, <1>6

\* The padding of a buffer is a multiple of the size of a header.
LEMMA PaddingFacts ==
  ASSUME NEW size \in Nat, NEW align \in Aligns
  PROVE  LET pad == Larger(PaddingSize(size), align)
         IN  pad \in Nat /\ pad >= HeaderSize /\ Mult(pad) /\ pad <= Pow2[SizeBits - 1]
<1> DEFINE p == PaddingSize(size)
           pad == Larger(p, align)
<1>1. p \in {8, 16, 64} /\ HeaderSize = 8
  BY DEF PaddingSize, HeaderSize
<1>2. 8 = HeaderSize * 1 /\ 16 = HeaderSize * 2 /\ 64 = HeaderSize * 8 /\ 1 \in Nat /\ 2 \in Nat /\ 8 \in Nat
  BY <1>1
<1>3. Mult(p)
  BY <1>1, <1>2 DEF Mult
<1>4. PICK k \in Nat : align = Pow2[k] /\ align \in Nat /\ align <= Pow2[SizeBits - 1]
  <2>1. PICK k \in 0 .. SizeBits - 1 : align = Pow2[k]
    BY PoolAssumption
  <2>2. SizeBits - 1 \in Nat /\ k \in Nat /\ k <= SizeBits - 1
    BY PoolAssumption
  <2>. QED
    BY <2>1, <2>2, PowerFacts
<1>5. 64 <= Pow2[SizeBits - 1] /\ Pow2[SizeBits - 1] \in Nat
  <2>1. SizeBits - 1 \in Nat /\ 6 <= SizeBits - 1
    BY PoolAssumption
  <2>2. Pow2[6] = 64
    <3>1. /\ Pow2[0] = 1 /\ Pow2[0 + 1] = 2 * Pow2[0] /\ Pow2[1 + 1] = 2 * Pow2[1] /\ Pow2[2 + 1] = 2 * Pow2[2]
          /\ Pow2[3 + 1] = 2 * Pow2[3] /\ Pow2[4 + 1] = 2 * Pow2[4] /\ Pow2[5 + 1] = 2 * Pow2[5]
      BY PowerFacts
    <3>. QED
      BY <3>1
  <2>. QED
    BY <2>1, <2>2, PowerFacts
<1> HIDE DEF p
<1>6. pad = IF p >= align THEN p ELSE align
  BY DEF Larger
<1>7. ASSUME ~ (p >= align) PROVE Mult(align) /\ align >= 8
  <2>1. align > 8
    BY <1>1, <1>4, <1>7
  <2>2. Pow2[1] = 2 /\ Pow2[2] = 4
    <3>1. Pow2[0] = 1 /\ Pow2[0 + 1] = 2 * Pow2[0] /\ Pow2[1 + 1] = 2 * Pow2[1]
      BY PowerFacts
    <3>. QED
      BY <3>1
  <2>3. k >= 3
    <3>1. k = 0 \/ k = 1 \/ k = 2 \/ k >= 3
      OBVIOUS
    <3>. QED
      BY <1>4, <2>1, <2>2, <3>1, PowerFacts
  <2>4. PICK x \in Nat : k = x + 3
    <3>1. k - 3 \in Nat /\ k = (k - 3) + 3
      BY <2>3
    <3>. QED
      BY <3>1
  <2>5. /\ Pow2[x + 1] = 2 * Pow2[x] /\ Pow2[x + 2] = 2 * Pow2[x + 1] /\ Pow2[x + 3] = 2 * Pow2[x + 2]
        /\ Pow2[x] \in Nat
    <3>1. x + 1 \in Nat /\ x + 2 \in Nat /\ (x + 1) + 1 = x + 2 /\ (x + 2) + 1 = x + 3
      OBVIOUS
    <3>. QED
      BY <3>1, PowerFacts
  <2>6. align = HeaderSize * Pow2[x]
    BY <1>1, <1>4, <2>4, <2>5
  <2>. QED
    BY <2>1, <2>5, <2>6, <1>4 DEF Mult
<1> HIDE DEF pad
<1>8. pad \in Nat /\ pad >= HeaderSize /\ Mult(pad) /\ pad <= Pow2[SizeBits - 1]
  BY <1>1, <1>3, <1>4, <1>5, <1>6, <1>7
<1>. QED
  BY <1>8 DEF pad, p

\* Where the object starts: behind a header, and not behind the padding.
LEMMA StartFacts ==
  ASSUME NEW addr \in Nat, Mult(addr), NEW pad \in Nat, pad >= HeaderSize, Mult(pad)
  PROVE  LET start == RoundUp(addr + HeaderSize, pad) - addr
         IN  start \in Nat /\ start >= HeaderSize /\ start <= pad
<1>1. HeaderSize = 8
  BY DEF HeaderSize
<1>2. PICK x \in Nat : addr = 8 * x
  BY <1>1 DEF Mult
<1>3. PICK y \in Nat : pad = 8 * y
  BY <1>1 DEF Mult
<1>4. PICK r : r = RoundUp(addr + HeaderSize, pad)
  OBVIOUS
<1>5. r \in Nat /\ addr + 8 <= r /\ r < addr + 8 + pad /\ \E z \in Nat : r = pad * z
  <2>1. addr + HeaderSize \in Nat /\ pad \in Nat \ {0}
    BY <1>1
  <2>. QED
    BY <1>1, <1>4, <2>1, RoundUpFacts
<1>6. PICK z \in Nat : r = pad * z
  BY <1>5
<1>7. PICK w \in Nat : w = y * z
  OBVIOUS
<1>8. r = 8 * w
  BY <1>3, <1>6, <1>7
<1>9. r <= addr + pad
  BY <1>2, <1>3, <1>5, <1>8
<1>. QED
  BY <1>1, <1>4, <1>5, <1>9

\* What is in the pool of a size, and the pool that a buffer in use will go to.
Fits(i, cap) == IF Sizes[i] < LargeThreshold THEN cap = Sizes[i] ELSE cap >= Sizes[i]
Buffers(i) == {b \in [cap : Nat, addr : Nat] : Fits(i, b.cap) /\ Mult(b.addr)}
FreedAs(b) == IF b.offset = 0 THEN b.size ELSE Pow2[b.log]

WaitingInv == DOMAIN pool = DOMAIN Sizes /\ \A i \in DOMAIN Sizes : pool[i] \in Seq(Buffers(i))
GivenOk(b) ==
    /\ b.cap \in Nat /\ b.addr \in Nat /\ b.size \in Nat /\ b.offset \in Nat /\ FreedAs(b) \in Nat
    /\ Mult(b.addr) /\ b.offset + b.size <= b.cap /\ (b.offset # 0 => b.offset >= HeaderSize)
    /\ FreedAs(b) <= MaxSize => Fits(Bucket(FreedAs(b)), b.cap)
PoolInv == WaitingInv /\ \A b \in given : GivenOk(b)

LEMMA InitPoolInv == PoolInit => PoolInv
<1>1. SUFFICES ASSUME PoolInit PROVE PoolInv
  OBVIOUS
<1>2. pool = [i \in DOMAIN Sizes |-> <<>>] /\ given = {}
  BY <1>1 DEF PoolInit
<1>3. \A i \in DOMAIN Sizes : pool[i] \in Seq(Buffers(i))
  BY <1>2
<1>. QED
  BY <1>2, <1>3 DEF PoolInv, WaitingInv

\* What is obtained for n bytes has room for them, and belongs to their pool.
LEMMA ObtainedFits ==
  ASSUME WaitingInv, NEW n \in Nat, NEW buffer \in Obtained(n)
  PROVE  /\ buffer.cap \in Nat /\ buffer.addr \in Nat /\ Mult(buffer.addr) /\ n <= buffer.cap
         /\ n <= MaxSize => Fits(Bucket(n), buffer.cap)
<1>1. PICK a \in Nat : Sizes \in Seq(Nat) /\ Len(Sizes) \in Nat /\ Len(Sizes) > 0 /\ DOMAIN Sizes = 1 .. Len(Sizes)
  BY SizesArePowers
<1>2. MaxSize \in Nat
  BY <1>1 DEF MaxSize
<1>3. MaxAlignment \in Nat \ {0} /\ Mult(MaxAlignment) /\ Mult(0)
  <2>1. MaxAlignment \in Nat \ {0} /\ MaxAlignment % HeaderSize = 0 /\ HeaderSize = 8
    BY PoolAssumption DEF HeaderSize
  <2>2. MaxAlignment = HeaderSize * (MaxAlignment \div HeaderSize) /\ MaxAlignment \div HeaderSize \in Nat
    BY <2>1
  <2>3. 0 = HeaderSize * 0 /\ 0 \in Nat
    BY <2>1
  <2>. QED
    BY <2>1, <2>2, <2>3 DEF Mult
<1>4. \A cap \in Nat : \A b \in FromSystem(cap) : b.cap = cap /\ b.addr \in Nat /\ Mult(b.addr)
  BY <1>3 DEF FromSystem
<1>5. n <= MaxSize => /\ Bucket(n) \in DOMAIN Sizes /\ Sizes[Bucket(n)] \in Nat /\ n <= Sizes[Bucket(n)]
  BY BucketFacts
<1>6. CASE Waiting(n)
  <2>1. n <= MaxSize /\ pool[Bucket(n)] # <<>> /\ pool[Bucket(n)] \in Seq(Buffers(Bucket(n))) /\ buffer = Head(pool[Bucket(n)])
    BY <1>5, <1>6 DEF Waiting, Obtained, WaitingInv
  <2>2. buffer \in Buffers(Bucket(n))
    BY <2>1
  <2>3. buffer.cap \in Nat /\ buffer.addr \in Nat /\ Mult(buffer.addr) /\ Fits(Bucket(n), buffer.cap)
    BY <2>2 DEF Buffers
  <2>4. buffer.cap >= Sizes[Bucket(n)]
    BY <1>5, <2>1, <2>3 DEF Fits
  <2>. QED
    BY <1>5, <2>1, <2>3, <2>4
<1>7. CASE ~ Waiting(n) /\ n > MaxSize
  <2>1. RoundUp(n, MaxAlignment) \in Nat /\ n <= RoundUp(n, MaxAlignment)
    BY <1>3, RoundUpFacts
  <2>2. buffer \in FromSystem(RoundUp(n, MaxAlignment))
    BY <1>7 DEF Obtained
  <2>. QED
    BY <1>2, <1>4, <1>7, <2>1, <2>2
<1>8. CASE ~ Waiting(n) /\ n <= MaxSize
  <2>1. ~ (n > MaxSize)
    BY <1>2, <1>8
  <2>2. PICK s \in Nat : s = Sizes[Bucket(n)]
    BY <1>5, <1>8
  <2>3. RoundUp(s, MaxAlignment) \in Nat /\ s <= RoundUp(s, MaxAlignment)
    BY <1>3, RoundUpFacts
  <2>4. PICK cap : cap = IF s < LargeThreshold THEN s ELSE RoundUp(s, MaxAlignment)
    OBVIOUS
  <2>5. buffer \in FromSystem(cap)
    BY <1>8, <2>1, <2>2, <2>4 DEF Obtained
  <2>6. cap \in Nat /\ s <= cap
    BY <2>3, <2>4
  <2>7. buffer.cap = cap /\ buffer.addr \in Nat /\ Mult(buffer.addr)
    BY <1>4, <2>5, <2>6
  <2>8. Fits(Bucket(n), cap)
    BY <2>2, <2>3, <2>4 DEF Fits
  <2>9. n <= cap
    BY <1>5, <1>8, <2>2, <2>6
  <2>. QED
    BY <2>6, <2>7, <2>8, <2>9
<1>9. n <= MaxSize \/ n > MaxSize
  BY <1>2
<1>. QED
  BY <1>6, <1>7, <1>8, <1>9

LEMMA ObtainKeeps ==
  ASSUME WaitingInv, NEW n \in Nat, Obtain(n)
  PROVE  WaitingInv'
<1>1. CASE Waiting(n)
  <2>1. pool' = [pool EXCEPT ![Bucket(n)] = Tail(@)] /\ n <= MaxSize /\ pool[Bucket(n)] # <<>>
    BY <1>1 DEF Obtain, Waiting
  <2>2. Bucket(n) \in DOMAIN Sizes
    BY <2>1, BucketFacts
  <2>3. PICK i : i = Bucket(n)
    OBVIOUS
  <2>4. i \in DOMAIN pool /\ pool[i] \in Seq(Buffers(i)) /\ pool[i] # <<>>
    BY <2>1, <2>2, <2>3 DEF WaitingInv
  <2>5. Tail(pool[i]) \in Seq(Buffers(i))
    BY <2>4
  <2>6. DOMAIN pool' = DOMAIN pool /\ \A k \in DOMAIN pool : pool'[k] = IF k = i THEN Tail(pool[i]) ELSE pool[k]
    BY <2>1, <2>3, <2>4
  <2>7. DOMAIN pool' = DOMAIN Sizes
    BY <2>6 DEF WaitingInv
  <2>8. \A k \in DOMAIN Sizes : pool'[k] \in Seq(Buffers(k))
    BY <2>5, <2>6 DEF WaitingInv
  <2>. QED
    BY <2>7, <2>8 DEF WaitingInv, Buffers, Fits
<1>2. CASE ~ Waiting(n)
  <2>1. pool' = pool
    BY <1>2 DEF Obtain
  <2>. QED
    BY <2>1 DEF WaitingInv, Buffers, Fits
<1>. QED
  BY <1>1, <1>2

LEMMA AllocatePoolInv == PoolInv /\ Allocate => PoolInv'
<1>1. SUFFICES ASSUME PoolInv, Allocate PROVE PoolInv'
  OBVIOUS
<1>2. PICK n \in Requests : \E buffer \in Obtained(n) : Obtain(n) /\ given' = given \cup {InUse(buffer, n, 0, 0)}
  BY <1>1 DEF Allocate
<1>3. PICK buffer \in Obtained(n) : Obtain(n) /\ given' = given \cup {InUse(buffer, n, 0, 0)}
  BY <1>2
<1>4. n \in Nat /\ WaitingInv
  BY <1>1, <1>2, PoolAssumption, PowerFacts DEF PoolInv
<1>5. /\ buffer.cap \in Nat /\ buffer.addr \in Nat /\ Mult(buffer.addr) /\ n <= buffer.cap
      /\ n <= MaxSize => Fits(Bucket(n), buffer.cap)
  BY <1>3, <1>4, ObtainedFits
<1>6. PICK b : b = InUse(buffer, n, 0, 0)
  OBVIOUS
<1>7. b.cap = buffer.cap /\ b.addr = buffer.addr /\ b.size = n /\ b.offset = 0
  BY <1>6 DEF InUse
<1>8. FreedAs(b) = n
  BY <1>7 DEF FreedAs
<1>9. GivenOk(b)
  BY <1>4, <1>5, <1>7, <1>8 DEF GivenOk
<1>10. \A x \in given' : GivenOk(x)
  BY <1>1, <1>3, <1>6, <1>9 DEF PoolInv
<1>11. WaitingInv'
  BY <1>3, <1>4, ObtainKeeps
<1>. QED
  BY <1>10, <1>11 DEF PoolInv, GivenOk, FreedAs, Fits

LEMMA PMallocPoolInv == PoolInv /\ PMalloc => PoolInv'
<1>1. SUFFICES ASSUME PoolInv, PMalloc PROVE PoolInv'
  OBVIOUS
<1>2. PICK size \in Requests, align \in Aligns : PMallocPadded(size, Larger(PaddingSize(size), align))
  BY <1>1 DEF PMalloc
<1>3. PICK pad : pad = Larger(PaddingSize(size), align)
  OBVIOUS
<1>4. size \in Nat /\ WaitingInv /\ size <= Pow2[SizeBits - 1]
  BY <1>1, <1>2, PoolAssumption, PowerFacts DEF PoolInv
<1>5. pad \in Nat /\ pad >= HeaderSize /\ Mult(pad) /\ pad <= Pow2[SizeBits - 1]
  BY <1>3, <1>4, PaddingFacts
<1>6. PICK n \in Nat : n = size + pad /\ n <= Pow2[SizeBits]
  <2>1. SizeBits - 1 \in Nat /\ (SizeBits - 1) + 1 = SizeBits
    BY PoolAssumption
  <2>2. Pow2[SizeBits] = 2 * Pow2[SizeBits - 1] /\ Pow2[SizeBits - 1] \in Nat
    BY <2>1, PowerFacts
  <2>. QED
    BY <1>4, <1>5, <2>2
<1>7. PICK buffer \in Obtained(n) :
         /\ Obtain(n)
         /\ given' = given \cup {InUse(buffer, size, LogUp(n), RoundUp(buffer.addr + HeaderSize, pad) - buffer.addr)}
  BY <1>2, <1>3, <1>6 DEF PMallocPadded
<1>8. /\ buffer.cap \in Nat /\ buffer.addr \in Nat /\ Mult(buffer.addr) /\ n <= buffer.cap
      /\ n <= MaxSize => Fits(Bucket(n), buffer.cap)
  BY <1>4, <1>7, ObtainedFits
<1>9. PICK start : start = RoundUp(buffer.addr + HeaderSize, pad) - buffer.addr
  OBVIOUS
<1>10. start \in Nat /\ start >= HeaderSize /\ start <= pad
  BY <1>5, <1>8, <1>9, StartFacts
<1>11. PICK b : b = InUse(buffer, size, LogUp(n), start)
  OBVIOUS
<1>12. b.cap = buffer.cap /\ b.addr = buffer.addr /\ b.size = size /\ b.offset = start /\ b.log = LogUp(n)
  BY <1>11 DEF InUse
<1>13. start # 0
  BY <1>10 DEF HeaderSize
<1>14. FreedAs(b) = Pow2[LogUp(n)]
  BY <1>12, <1>13 DEF FreedAs
<1>15. /\ FreedAs(b) \in Nat
       /\ FreedAs(b) <= MaxSize => n <= MaxSize /\ Bucket(FreedAs(b)) = Bucket(n)
  BY <1>6, <1>14, SameBucket
<1>16. start + size <= buffer.cap
  BY <1>4, <1>5, <1>6, <1>8, <1>10
<1>17. GivenOk(b)
  BY <1>4, <1>8, <1>10, <1>12, <1>15, <1>16 DEF GivenOk
<1>18. \A x \in given' : GivenOk(x)
  BY <1>1, <1>7, <1>9, <1>11, <1>17 DEF PoolInv
<1>19. WaitingInv'
  BY <1>4, <1>7, ObtainKeeps
<1>. QED
  BY <1>18, <1>19 DEF PoolInv, GivenOk, FreedAs, Fits

LEMMA DeallocatePoolInv == PoolInv /\ Deallocate => PoolInv'
<1>1. SUFFICES ASSUME PoolInv, Deallocate PROVE PoolInv'
  OBVIOUS
<1>2. PICK b \in given : /\ given' = given \ {b}
                         /\ GiveTo([cap |-> b.cap, addr |-> b.addr], FreedAs(b))
  BY <1>1 DEF Deallocate, FreedAs
<1>3. GivenOk(b) /\ WaitingInv
  BY <1>1, <1>2 DEF PoolInv
<1>4. PICK n \in Nat : n = FreedAs(b)
  BY <1>3 DEF GivenOk
<1>5. PICK buffer : buffer = [cap |-> b.cap, addr |-> b.addr]
  OBVIOUS
<1>6. MaxSize \in Nat
  <2>1. Sizes \in Seq(Nat) /\ Len(Sizes) \in Nat /\ Len(Sizes) > 0
    BY SizesArePowers
  <2>. QED
    BY <2>1 DEF MaxSize
<1>7. WaitingInv'
  <2>1. CASE n > MaxSize
    <3>1. pool' = pool
      BY <1>2, <1>4, <2>1 DEF GiveTo
    <3>. QED
      BY <1>3, <3>1 DEF WaitingInv, Buffers, Fits
  <2>2. CASE n <= MaxSize
    <3>1. PICK i : i = Bucket(n)
      OBVIOUS
    <3>2. i \in DOMAIN Sizes /\ i \in DOMAIN pool
      BY <1>3, <2>2, <3>1, BucketFacts DEF WaitingInv
    <3>3. buffer \in Buffers(i)
      <4>1. b.cap \in Nat /\ b.addr \in Nat /\ Mult(b.addr) /\ Fits(i, b.cap)
        BY <1>3, <1>4, <2>2, <3>1 DEF GivenOk
      <4>. QED
        BY <1>5, <4>1 DEF Buffers
    <3>4. pool[i] \in Seq(Buffers(i))
      BY <1>3, <3>2 DEF WaitingInv
    <3>5. <<buffer>> \o pool[i] \in Seq(Buffers(i))
      BY <3>3, <3>4
    <3>6. pool' = [pool EXCEPT ![i] = <<buffer>> \o @]
      <4>1. ~ (n > MaxSize)
        BY <1>6, <2>2
      <4>. QED
        BY <1>2, <1>4, <1>5, <3>1, <4>1 DEF GiveTo
    <3>7. DOMAIN pool' = DOMAIN pool /\ \A k \in DOMAIN pool : pool'[k] = IF k = i THEN <<buffer>> \o pool[i] ELSE pool[k]
      BY <3>2, <3>6
    <3>8. DOMAIN pool' = DOMAIN Sizes
      BY <1>3, <3>7 DEF WaitingInv
    <3>9. \A k \in DOMAIN Sizes : pool'[k] \in Seq(Buffers(k))
      BY <1>3, <3>5, <3>7 DEF WaitingInv
    <3>. QED
      BY <3>8, <3>9 DEF WaitingInv, Buffers, Fits
  <2>. QED
    BY <1>6, <2>1, <2>2
<1>8. \A x \in given' : GivenOk(x)
  BY <1>1, <1>2 DEF PoolInv
<1>. QED
  BY <1>7, <1>8 DEF PoolInv, GivenOk, FreedAs, Fits

LEMMA ClearPoolInv == PoolInv /\ ClearPools => PoolInv'
<1>1. SUFFICES ASSUME PoolInv, ClearPools PROVE PoolInv'
  OBVIOUS
<1>2. /\ pool' = [i \in DOMAIN Sizes |-> IF Sizes[i] < LargeThreshold THEN pool[i] ELSE <<>>]
      /\ given' = given /\ WaitingInv
  BY <1>1 DEF ClearPools, PoolInv
<1>3. DOMAIN pool' = DOMAIN Sizes
  BY <1>2
<1>4. \A i \in DOMAIN Sizes : pool'[i] = pool[i] \/ pool'[i] = <<>>
  BY <1>2
<1>5. \A i \in DOMAIN Sizes : pool'[i] \in Seq(Buffers(i))
  BY <1>2, <1>4 DEF WaitingInv
<1>6. WaitingInv'
  BY <1>3, <1>5 DEF WaitingInv, Buffers, Fits
<1>. QED
  BY <1>1, <1>2, <1>6 DEF PoolInv, GivenOk, FreedAs, Fits

\* Every buffer waits in a pool that it is large enough for, and one in use will return to
\* such a pool, whether it is freed by its size or by its header (pool_allocator.h, alloc.h).
THEOREM PoolInvHolds == PoolSpec => []PoolInv
<1>1. PoolInit => PoolInv
  BY InitPoolInv
<1>2. PoolInv /\ [PoolNext]_poolVars => PoolInv'
  <2>1. PoolInv /\ UNCHANGED poolVars => PoolInv'
    BY DEF PoolInv, WaitingInv, GivenOk, FreedAs, Fits, Buffers, poolVars
  <2>. QED
    BY <2>1, AllocatePoolInv, PMallocPoolInv, DeallocatePoolInv, ClearPoolInv DEF PoolNext
<1>. QED
  BY <1>1, <1>2, PTL DEF PoolSpec

\* What p_malloc and the allocator hand out fits into its buffer, and the buffer returns to
\* a pool of its size (pool_allocator.h, alloc.h).
THEOREM BuffersAlwaysFit == PoolSpec => []BuffersFit
<1>1. PoolInv => BuffersFit
  <2>1. SUFFICES ASSUME PoolInv PROVE BuffersFit
    OBVIOUS
  <2>2. \A b \in given : b.offset + b.size <= b.cap /\ (b.offset # 0 => b.offset >= HeaderSize)
    BY <2>1 DEF PoolInv, GivenOk
  <2>3. ASSUME NEW i \in DOMAIN Sizes, NEW k \in DOMAIN pool[i]
        PROVE  Fits(i, pool[i][k].cap)
    <3>1. pool[i] \in Seq(Buffers(i))
      BY <2>1 DEF PoolInv, WaitingInv
    <3>2. pool[i][k] \in Buffers(i)
      BY <3>1
    <3>. QED
      BY <3>2 DEF Buffers
  <2>. QED
    BY <2>2, <2>3 DEF BuffersFit, Fits
<1>. QED
  BY <1>1, PoolInvHolds, PTL

-----------------------------------------------------------------------------
(* ParlaySequence: the memory that member functions work on.               *)

All == Name \cup Temporary
Elem == Value \cup {Moved, Null}

With(v, x, q) == [v EXCEPT ![x] = q]
WithSize(o, n) == [o EXCEPT !.n = n]
Resized(m, x, a, n) == SetSize([m EXCEPT !.alive = a], x, n)

\* The cells of an object that holds q.
Pad(q, c) == [i \in 1 .. c |-> IF i <= Len(q) THEN q[i] ELSE NoObject]
Short(n, cells) == [flag |-> 0, n |-> n, buf |-> Null, short |-> cells]
Inside(q) == Short(Len(q), Pad(q, ShortCapacity))

IsInside(m, x, q) == Len(q) <= ShortCapacity /\ m.obj[x] = Inside(q)
IsOutside(m, x, q, b, c) ==
    Len(q) <= c /\ m.obj[x] = Long(b, Len(q)) /\ m.heap[b] = Allocated(Pad(q, c))
Holds(m, x, q) == IsInside(m, x, q) \/ \E b \in Buffer, c \in Nat : IsOutside(m, x, q, b, c)

Shape(m) ==
    /\ m = [heap |-> m.heap, obj |-> m.obj, alive |-> m.alive]
    /\ m.heap = [b \in Buffer |-> m.heap[b]]
    /\ m.obj = [x \in All |-> m.obj[x]]
    /\ m.alive \in Int

\* The memory m keeps the sequences v, each in cells of its own.
Keeps(m, v) ==
    /\ Shape(m)
    /\ v \in [All -> Seq(Elem)]
    /\ \A x \in All : Holds(m, x, v[x])
    /\ \A b \in Buffer : m.heap[b] = Released \/ \E x \in All : m.obj[x].buf = b
    /\ \A x, y \in All : m.obj[x].buf \in Buffer /\ m.obj[x].buf = m.obj[y].buf => x = y

-----------------------------------------------------------------------------
\* What the constants are, in the form the proofs use.
LEMMA ConstantFacts ==
  ASSUME SequenceConstants
  PROVE  /\ ShortCapacity \in Nat /\ Granularity \in Nat /\ Granularity > 0 /\ Null \notin Buffer
         /\ IsFiniteSet(All) /\ IsFiniteSet(Buffer) /\ Cardinality(Buffer) > Cardinality(All)
         /\ Buffer \in SUBSET Nat /\ Cardinality(Buffer) \in Nat /\ Buffer = 1 .. Cardinality(Buffer)
<1>1. IsFiniteSet(Temporary)
  <2>1. Temporary = {"tail"} \cup {"other"}
    BY DEF Temporary
  <2>. QED
    BY <2>1, FS_Singleton, FS_Union
<1>2. IsFiniteSet(All) /\ IsFiniteSet(Buffer)
  BY <1>1, FS_Union DEF SequenceConstants, All
<1>3. Cardinality(Buffer) \in Nat
  BY <1>2, FS_CardinalityType
<1>4. Buffer = 1 .. Cardinality(Buffer)
  BY DEF SequenceConstants
<1>5. Buffer \in SUBSET Nat
  BY <1>3, <1>4
<1>. QED
  BY <1>2, <1>3, <1>4, <1>5 DEF SequenceConstants, All

\* The cells of an object that holds q: first q, then no objects.
LEMMA PadFacts ==
  ASSUME NEW q \in Seq(Elem), NEW c \in Nat, Len(q) <= c
  PROVE  /\ Pad(q, c) = [i \in 1 .. c |-> Pad(q, c)[i]] /\ Len(Pad(q, c)) = c /\ DOMAIN Pad(q, c) = 1 .. c
         /\ Pad(q, c) \in Seq(Elem \cup {NoObject})
         /\ SubSeq(Pad(q, c), 1, Len(q)) = q
         /\ \A i \in 1 .. c : Pad(q, c)[i] = IF i <= Len(q) THEN q[i] ELSE NoObject
<1>1. Len(q) \in Nat /\ \A i \in 1 .. Len(q) : q[i] \in Elem
  OBVIOUS
<1>2. Pad(q, c) \in Seq(Elem \cup {NoObject}) /\ Len(Pad(q, c)) = c /\ DOMAIN Pad(q, c) = 1 .. c
  BY <1>1 DEF Pad
<1>3. \A i \in 1 .. c : Pad(q, c)[i] = IF i <= Len(q) THEN q[i] ELSE NoObject
  BY DEF Pad
<1>4. SubSeq(Pad(q, c), 1, Len(q)) = q
  BY <1>1, <1>2, <1>3
<1>. QED
  BY <1>2, <1>3, <1>4

\* A buffer in use is not a released one.
LEMMA ReleasedFacts ==
  /\ Released.used = FALSE
  /\ \A cells : Allocated(cells).used = TRUE /\ Allocated(cells).cells = cells /\ Allocated(cells) # Released
BY DEF Released, Allocated

\* What a member function sees of an object.
LEMMA InsideFacts ==
  ASSUME SequenceConstants, NEW m, NEW x, NEW q \in Seq(Elem), IsInside(m, x, q)
  PROVE  /\ Cells(m, x) = Pad(q, ShortCapacity) /\ Capacity(m, x) = ShortCapacity
         /\ m.obj[x].buf = Null /\ m.obj[x].flag = 0 /\ Size(m, x) = Len(q) /\ Elements(m, x) = q
         /\ m.obj[x].n = Len(q) /\ m.obj[x].short = Pad(q, ShortCapacity)
         /\ IsSmall(m, x) <=> ShortCapacity > 0
<1>1. ShortCapacity \in Nat
  BY ConstantFacts
<1>2. /\ m.obj[x].buf = Null /\ m.obj[x].flag = 0 /\ m.obj[x].n = Len(q)
      /\ m.obj[x].short = Pad(q, ShortCapacity) /\ Len(q) <= ShortCapacity
  BY DEF IsInside, Inside, Short
<1>3. IsSmall(m, x) <=> ShortCapacity > 0
  BY <1>1, <1>2 DEF IsSmall
<1>4. Cells(m, x) = Pad(q, ShortCapacity)
  <2>1. CASE ShortCapacity = 0
    <3>1. Cells(m, x) = <<>>
      BY <1>2, <1>3, <2>1 DEF Cells
    <3>2. Pad(q, ShortCapacity) = <<>>
      BY <2>1 DEF Pad
    <3>. QED
      BY <3>1, <3>2
  <2>2. CASE ShortCapacity # 0
    BY <1>1, <1>2, <1>3, <2>2 DEF Cells
  <2>. QED
    BY <2>1, <2>2
<1>. QED
  BY <1>1, <1>2, <1>3, <1>4, PadFacts DEF Capacity, Size, Elements

ReadOutside(m, x, q, b, c) ==
    /\ Cells(m, x) = Pad(q, c) /\ Capacity(m, x) = c
    /\ m.obj[x].buf = b /\ Size(m, x) = Len(q) /\ Elements(m, x) = q
    /\ m.obj[x].n = Len(q) /\ m.obj[x].flag = 1 /\ m.obj[x].short = <<>>
    /\ ~IsSmall(m, x) /\ m.obj[x].buf # Null

\* ... of one whose elements are in a buffer.
LEMMA OutsideFacts ==
  ASSUME SequenceConstants, NEW m, NEW x, NEW q \in Seq(Elem), NEW b \in Buffer, NEW c \in Nat,
         IsOutside(m, x, q, b, c)
  PROVE  ReadOutside(m, x, q, b, c)
<1>1. /\ m.obj[x].flag = 1 /\ m.obj[x].buf = b /\ m.obj[x].n = Len(q) /\ m.obj[x].short = <<>>
      /\ m.heap[b].cells = Pad(q, c) /\ Len(q) <= c
  BY ReleasedFacts DEF IsOutside, Long
<1>2. ~IsSmall(m, x) /\ m.obj[x].buf # Null
  BY <1>1, ConstantFacts DEF IsSmall
<1>3. Cells(m, x) = Pad(q, c)
  BY <1>1, <1>2 DEF Cells
<1>4. Len(Pad(q, c)) = c /\ SubSeq(Pad(q, c), 1, Len(q)) = q
  BY <1>1, PadFacts
<1>5. Capacity(m, x) = c /\ Size(m, x) = Len(q) /\ Elements(m, x) = q
  BY <1>1, <1>3, <1>4 DEF Capacity, Size, Elements
<1>. QED
  BY <1>1, <1>2, <1>3, <1>5 DEF ReadOutside

\* ... of either kind: a sequence is read as it was written.
LEMMA ObjectFacts ==
  ASSUME SequenceConstants, NEW m, NEW v, Keeps(m, v), NEW x \in All
  PROVE  /\ v[x] \in Seq(Elem) /\ Size(m, x) = Len(v[x]) /\ Elements(m, x) = v[x]
         /\ Capacity(m, x) \in Nat /\ Len(v[x]) <= Capacity(m, x) /\ Len(v[x]) \in Nat
         /\ Cells(m, x) = Pad(v[x], Capacity(m, x))
<1>1. v[x] \in Seq(Elem) /\ Holds(m, x, v[x])
  BY DEF Keeps
<1>2. CASE IsInside(m, x, v[x])
  BY <1>1, <1>2, InsideFacts, ConstantFacts DEF IsInside
<1>3. ASSUME NEW b \in Buffer, NEW c \in Nat, IsOutside(m, x, v[x], b, c)
      PROVE  /\ Size(m, x) = Len(v[x]) /\ Elements(m, x) = v[x]
             /\ Capacity(m, x) \in Nat /\ Len(v[x]) <= Capacity(m, x)
             /\ Cells(m, x) = Pad(v[x], Capacity(m, x))
  <2>1. Cells(m, x) = Pad(v[x], c) /\ Capacity(m, x) = c /\ Size(m, x) = Len(v[x]) /\ Elements(m, x) = v[x]
    <3>1. PICK q \in Seq(Elem) : q = v[x]
      BY <1>1
    <3>2. IsOutside(m, x, q, b, c)
      BY <1>3, <3>1
    <3>3. ReadOutside(m, x, q, b, c)
      BY <3>2, OutsideFacts
    <3>. QED
      BY <3>1, <3>3 DEF ReadOutside
  <2>. QED
    BY <1>3, <2>1 DEF IsOutside
<1>. QED
  BY <1>1, <1>2, <1>3 DEF Holds

\* The same with the sequence named by v.
LEMMA OutsideOf ==
  ASSUME SequenceConstants, NEW m, NEW v, Keeps(m, v), NEW x \in All, NEW b \in Buffer, NEW c \in Nat,
         IsOutside(m, x, v[x], b, c)
  PROVE  ReadOutside(m, x, v[x], b, c)
<1>1. PICK q \in Seq(Elem) : q = v[x]
  BY DEF Keeps
<1>2. IsOutside(m, x, q, b, c)
  BY <1>1
<1>3. ReadOutside(m, x, q, b, c)
  BY <1>2, OutsideFacts
<1>. QED
  BY <1>1, <1>3

\* One object changes, and with it the buffer it had and the one it has.
LEMMA ChangeOne ==
  ASSUME SequenceConstants, NEW m, NEW v, Keeps(m, v), NEW x \in All, NEW q \in Seq(Elem),
         NEW m2, Shape(m2), \A z \in All \ {x} : m2.obj[z] = m.obj[z], Holds(m2, x, q),
         \A b \in Buffer : b # m.obj[x].buf /\ b # m2.obj[x].buf => m2.heap[b] = m.heap[b],
         m.obj[x].buf \in Buffer /\ m.obj[x].buf # m2.obj[x].buf => m2.heap[m.obj[x].buf] = Released,
         m2.obj[x].buf \in Buffer => m2.obj[x].buf = m.obj[x].buf \/ m.heap[m2.obj[x].buf] = Released
  PROVE  Keeps(m2, With(v, x, q))
<1> DEFINE w == With(v, x, q)
           o == m2.obj[x]
<1>1. w \in [All -> Seq(Elem)] /\ w[x] = q /\ \A z \in All \ {x} : w[z] = v[z]
  BY DEF Keeps, With
<1>2. m2.obj[x] = o /\ \A z \in All \ {x} : m2.obj[z] = m.obj[z]
  OBVIOUS
<1>3. ASSUME NEW z \in All \ {x} PROVE Holds(m2, z, w[z])
  <2>1. Holds(m, z, v[z])
    BY DEF Keeps
  <2>2. CASE IsInside(m, z, v[z])
    BY <1>1, <1>2, <2>2 DEF Holds, IsInside
  <2>3. ASSUME NEW b \in Buffer, NEW c \in Nat, IsOutside(m, z, v[z], b, c)
        PROVE  IsOutside(m2, z, v[z], b, c)
    <3>1. m.obj[z].buf = b /\ m.heap[b] # Released
      BY <2>3, ReleasedFacts DEF IsOutside, Long
    <3>2. b # m.obj[x].buf
      BY <3>1 DEF Keeps
    <3>3. b # o.buf
      BY <3>1, <3>2
    <3>. QED
      BY <1>2, <2>3, <3>2, <3>3 DEF IsOutside
  <2>. QED
    BY <1>1, <2>1, <2>2, <2>3 DEF Holds
<1>4. \A z \in All : Holds(m2, z, w[z])
  BY <1>1, <1>3
<1>5. ASSUME NEW b \in Buffer PROVE m2.heap[b] = Released \/ \E z \in All : m2.obj[z].buf = b
  <2>1. CASE b = o.buf
    BY <1>2, <2>1
  <2>2. CASE b # o.buf /\ b = m.obj[x].buf
    BY <2>2
  <2>3. CASE b # o.buf /\ b # m.obj[x].buf
    <3>1. m2.heap[b] = m.heap[b]
      BY <2>3
    <3>2. m.heap[b] = Released \/ \E z \in All : m.obj[z].buf = b
      BY DEF Keeps
    <3>. QED
      BY <1>2, <2>3, <3>1, <3>2
  <2>. QED
    BY <2>1, <2>2, <2>3
<1>6. ASSUME NEW z \in All \ {x}, m2.obj[z].buf \in Buffer PROVE m2.obj[z].buf # o.buf
  <2>1. SUFFICES ASSUME m2.obj[z].buf = o.buf PROVE FALSE
    OBVIOUS
  <2>2. m.obj[z].buf = o.buf /\ o.buf \in Buffer
    BY <1>2, <1>6, <2>1
  <2>3. m.heap[o.buf] = Released
    BY <2>2 DEF Keeps
  <2>4. Holds(m, z, v[z]) /\ v[z] \in Seq(Elem)
    BY DEF Keeps
  <2>5. ~IsInside(m, z, v[z])
    BY <2>2, <2>4, InsideFacts, ConstantFacts
  <2>6. PICK b \in Buffer, c \in Nat : IsOutside(m, z, v[z], b, c)
    BY <2>4, <2>5 DEF Holds
  <2>. QED
    BY <2>2, <2>3, <2>6, ReleasedFacts DEF IsOutside, Long
<1>7. ASSUME NEW y \in All, NEW z \in All, m2.obj[y].buf \in Buffer, m2.obj[y].buf = m2.obj[z].buf
      PROVE  y = z
  <2>1. CASE y = x
    BY <1>2, <1>6, <1>7, <2>1
  <2>2. CASE z = x
    BY <1>2, <1>6, <1>7, <2>2
  <2>3. CASE y # x /\ z # x
    BY <1>2, <1>7, <2>3 DEF Keeps
  <2>. QED
    BY <2>1, <2>2, <2>3
<1>. QED
  BY <1>1, <1>2, <1>4, <1>5, <1>7 DEF Keeps

-----------------------------------------------------------------------------
(* Cells are written. *)

Over(m, x, cells) ==
    [i \in 1 .. Capacity(m, x) |-> IF i \in DOMAIN cells THEN cells[i] ELSE Cells(m, x)[i]]

\* Cells written into an object, that has them inside.
LEMMA PutInside ==
  ASSUME SequenceConstants, NEW m, NEW v, Keeps(m, v), NEW x \in All, NEW cells, IsInside(m, x, v[x])
  PROVE  /\ Shape(Put(m, x, cells)) /\ Put(m, x, cells).alive = m.alive
         /\ Put(m, x, cells).heap = m.heap
         /\ Put(m, x, cells).obj[x] = Short(Len(v[x]), Over(m, x, cells))
         /\ \A z \in All \ {x} : Put(m, x, cells).obj[z] = m.obj[z]
<1> DEFINE m2 == Put(m, x, cells)
           over == Over(m, x, cells)
<1>1. Shape(m) /\ v[x] \in Seq(Elem)
  BY DEF Keeps
<1>2. m2 = IF IsSmall(m, x) THEN [m EXCEPT !.obj[x].short = over]
           ELSE IF m.obj[x].buf = Null THEN m ELSE [m EXCEPT !.heap[m.obj[x].buf] = Allocated(over)]
  BY DEF Put, Over
<1> DEFINE o == Short(Len(v[x]), over)
<1>3. m.obj[x] = Short(Len(v[x]), Pad(v[x], ShortCapacity))
  BY DEF IsInside, Inside, Short
<1>4. CASE ShortCapacity = 0
  <2>1. m2 = m
    BY <1>1, <1>2, <1>4, InsideFacts
  <2>2. over = <<>> /\ Pad(v[x], ShortCapacity) = <<>>
    <3>1. Capacity(m, x) = 0
      BY <1>1, <1>4, InsideFacts
    <3>. QED
      BY <1>4, <3>1 DEF Over, Pad
  <2>3. m.obj[x] = o
    BY <1>3, <2>2
  <2>. QED
    BY <1>1, <2>1, <2>3
<1>5. CASE ShortCapacity # 0
  <2>1. m2 = [m EXCEPT !.obj[x].short = over]
    BY <1>1, <1>2, <1>5, InsideFacts, ConstantFacts
  <2>2. [m.obj[x] EXCEPT !.short = over] = o
    BY <1>3 DEF Short
  <2>3. m2 = [m EXCEPT !.obj = [m.obj EXCEPT ![x] = o]]
    BY <2>1, <2>2
  <2> HIDE DEF o, m2
  <2>4. m2 = [heap |-> m.heap, obj |-> [m.obj EXCEPT ![x] = o], alive |-> m.alive]
    BY <1>1, <2>3 DEF Shape
  <2>5. /\ Shape(m2) /\ m2.alive = m.alive /\ m2.heap = m.heap
        /\ m2.obj[x] = o /\ \A z \in All \ {x} : m2.obj[z] = m.obj[z]
    BY <1>1, <2>4 DEF Shape
  <2>. QED
    BY <2>5 DEF m2, o
<1>. QED
  BY <1>4, <1>5

PutThere(m, x, cells, b, P) ==
    /\ Shape(P) /\ P.alive = m.alive /\ P.obj = m.obj
    /\ P.heap[b] = Allocated(Over(m, x, cells))
    /\ \A d \in Buffer \ {b} : P.heap[d] = m.heap[d]

\* ... that has them in a buffer.
LEMMA PutOutside ==
  ASSUME SequenceConstants, NEW m, NEW v, Keeps(m, v), NEW x \in All, NEW cells,
         NEW b \in Buffer, NEW c \in Nat, IsOutside(m, x, v[x], b, c)
  PROVE  PutThere(m, x, cells, b, Put(m, x, cells))
<1> DEFINE m2 == Put(m, x, cells)
           over == Over(m, x, cells)
<1>1. Shape(m)
  BY DEF Keeps
<1>2. m2 = IF IsSmall(m, x) THEN [m EXCEPT !.obj[x].short = over]
           ELSE IF m.obj[x].buf = Null THEN m ELSE [m EXCEPT !.heap[m.obj[x].buf] = Allocated(over)]
  BY DEF Put, Over
<1>3. ~IsSmall(m, x) /\ m.obj[x].buf # Null /\ m.obj[x].buf = b
  <2>1. ReadOutside(m, x, v[x], b, c)
    BY OutsideOf
  <2>. QED
    BY <2>1 DEF ReadOutside
<1>4. m2 = [m EXCEPT !.heap = [m.heap EXCEPT ![b] = Allocated(over)]]
  BY <1>2, <1>3
<1> HIDE DEF m2, over
<1>5. m2 = [heap |-> [m.heap EXCEPT ![b] = Allocated(over)], obj |-> m.obj, alive |-> m.alive]
  BY <1>1, <1>4 DEF Shape
<1>6. /\ Shape(m2) /\ m2.alive = m.alive /\ m2.obj = m.obj
      /\ m2.heap[b] = Allocated(over) /\ \A d \in Buffer \ {b} : m2.heap[d] = m.heap[d]
  BY <1>1, <1>5 DEF Shape
<1>. QED
  BY <1>6 DEF m2, over, PutThere

\* ... of either kind.
LEMMA PutShape ==
  ASSUME SequenceConstants, NEW m, NEW v, Keeps(m, v), NEW x \in All, NEW cells
  PROVE  Shape(Put(m, x, cells)) /\ Put(m, x, cells).alive = m.alive
<1>1. Holds(m, x, v[x])
  BY DEF Keeps
<1>2. ASSUME IsInside(m, x, v[x])
      PROVE  Shape(Put(m, x, cells)) /\ Put(m, x, cells).alive = m.alive
  BY <1>2, PutInside
<1>3. ASSUME NEW b \in Buffer, NEW c \in Nat, IsOutside(m, x, v[x], b, c)
      PROVE  Shape(Put(m, x, cells)) /\ Put(m, x, cells).alive = m.alive
  <2>1. PutThere(m, x, cells, b, Put(m, x, cells))
    BY <1>3, PutOutside
  <2>. QED
    BY <2>1 DEF PutThere
<1>. QED
  BY <1>1, <1>2, <1>3 DEF Holds

\* When the cells written are those of q, and the size is set, the object holds q.
LEMMA Overwrite ==
  ASSUME SequenceConstants, NEW m, NEW v, Keeps(m, v), NEW x \in All, NEW cells, NEW q \in Seq(Elem),
         Len(q) <= Capacity(m, x), Over(m, x, cells) = Pad(q, Capacity(m, x)),
         NEW m2, Shape(m2), m2.heap = Put(m, x, cells).heap,
         m2.obj[x] = WithSize(Put(m, x, cells).obj[x], Len(q)),
         \A z \in All \ {x} : m2.obj[z] = Put(m, x, cells).obj[z]
  PROVE  /\ Keeps(m2, With(v, x, q)) /\ \A z \in All \ {x} : m2.obj[z] = m.obj[z]
<1>1. Shape(m) /\ v[x] \in Seq(Elem) /\ Holds(m, x, v[x])
  BY DEF Keeps
<1> DEFINE over == Over(m, x, cells)
           P == Put(m, x, cells)
<1> HIDE DEF over, P
<1>4. /\ m2.heap = P.heap /\ m2.obj[x] = [P.obj[x] EXCEPT !.n = Len(q)]
      /\ \A z \in All \ {x} : m2.obj[z] = P.obj[z]
  BY DEF P, WithSize
<1>2. CASE IsInside(m, x, v[x])
  <2>1. Capacity(m, x) = ShortCapacity /\ over = Pad(q, ShortCapacity)
    BY <1>1, <1>2, InsideFacts DEF over
  <2>2. P.heap = m.heap /\ P.obj[x] = Short(Len(v[x]), over)
    <3>1. /\ Put(m, x, cells).heap = m.heap
          /\ Put(m, x, cells).obj[x] = Short(Len(v[x]), Over(m, x, cells))
      BY <1>2, PutInside
    <3>. QED
      BY <3>1 DEF P, over
  <2>3. [P.obj[x] EXCEPT !.n = Len(q)] = Inside(q)
    BY <2>1, <2>2 DEF Inside, Short
  <2>4. m2.obj[x] = Inside(q)
    BY <1>4, <2>3
  <2>5. Holds(m2, x, q)
    BY <2>1, <2>4 DEF Holds, IsInside
  <2>6. Inside(q).buf = Null /\ m2.heap = m.heap /\ m.obj[x].buf = Null
    BY <1>1, <1>2, <2>2, <1>4, InsideFacts DEF Inside, Short
  <2>7. \A z \in All \ {x} : m2.obj[z] = m.obj[z]
    <3>1. \A z \in All \ {x} : Put(m, x, cells).obj[z] = m.obj[z]
      BY <1>2, PutInside
    <3>. QED
      BY <1>4, <3>1 DEF P
  <2>8. m2.obj[x].buf = Null /\ Null \notin Buffer
    BY <2>4, <2>6, ConstantFacts
  <2>. QED
    BY <2>5, <2>6, <2>7, <2>8, ChangeOne
<1>3. ASSUME NEW b \in Buffer, NEW c \in Nat, IsOutside(m, x, v[x], b, c)
      PROVE  Keeps(m2, With(v, x, q)) /\ \A z \in All \ {x} : m2.obj[z] = m.obj[z]
  <2>1. Capacity(m, x) = c /\ over = Pad(q, c) /\ m.obj[x] = Long(b, Len(v[x])) /\ m.obj[x].buf = b
    <3>1. ReadOutside(m, x, v[x], b, c)
      BY <1>3, OutsideOf
    <3>2. Capacity(m, x) = c /\ m.obj[x].buf = b
      BY <3>1 DEF ReadOutside
    <3>. QED
      BY <1>3, <3>2 DEF over, IsOutside
  <2>2. P.heap[b] = Allocated(over) /\ P.obj = m.obj /\ \A d \in Buffer \ {b} : P.heap[d] = m.heap[d]
    <3>1. PutThere(m, x, cells, b, Put(m, x, cells))
      BY <1>3, PutOutside
    <3>2. PutThere(m, x, cells, b, P)
      BY <3>1 DEF P
    <3>. QED
      BY <3>2 DEF PutThere, over
  <2>3. [m.obj[x] EXCEPT !.n = Len(q)] = Long(b, Len(q))
    BY <2>1 DEF Long
  <2>5. m2.obj[x] = Long(b, Len(q))
    BY <1>4, <2>2, <2>3
  <2>6. m2.heap[b] = Allocated(Pad(q, c)) /\ \A d \in Buffer \ {b} : m2.heap[d] = m.heap[d]
    BY <1>4, <2>1, <2>2
  <2>7. Holds(m2, x, q)
    BY <2>1, <2>5, <2>6 DEF Holds, IsOutside
  <2>8. Long(b, Len(q)).buf = b
    BY DEF Long
  <2>9. \A z \in All \ {x} : m2.obj[z] = m.obj[z]
    BY <1>4, <2>2
  <2>10. m2.obj[x].buf = b
    BY <2>5, <2>8
  <2>11. /\ \A d \in Buffer : d # m.obj[x].buf /\ d # m2.obj[x].buf => m2.heap[d] = m.heap[d]
         /\ m.obj[x].buf = m2.obj[x].buf
    BY <2>1, <2>6, <2>10
  <2>. QED
    BY <2>7, <2>9, <2>11, ChangeOne
<1>. QED
  BY <1>1, <1>2, <1>3 DEF Holds

\* What else changes when size and count are set.
LEMMA ResizedFacts ==
  ASSUME NEW m, Shape(m), NEW x \in All, NEW n, NEW a \in Int
  PROVE  /\ Shape(Resized(m, x, a, n)) /\ Resized(m, x, a, n).heap = m.heap /\ Resized(m, x, a, n).alive = a
         /\ Resized(m, x, a, n).obj[x] = WithSize(m.obj[x], n)
         /\ \A z \in All \ {x} : Resized(m, x, a, n).obj[z] = m.obj[z]
<1>1. [m EXCEPT !.alive = a] = [heap |-> m.heap, obj |-> m.obj, alive |-> a]
  BY DEF Shape
<1>2. PICK o : o = WithSize(m.obj[x], n)
  OBVIOUS
<1>3. Resized(m, x, a, n) = [heap |-> m.heap, obj |-> [m.obj EXCEPT ![x] = o], alive |-> a]
  <2>1. PICK M : M = [m EXCEPT !.alive = a]
    OBVIOUS
  <2>2. M = [heap |-> m.heap, obj |-> m.obj, alive |-> a]
    BY <1>1, <2>1
  <2>3. Resized(m, x, a, n) = [M EXCEPT !.obj = [M.obj EXCEPT ![x] = WithSize(M.obj[x], n)]]
    BY <2>1 DEF Resized, SetSize, WithSize
  <2>4. M.obj = m.obj
    BY <2>2
  <2>5. Resized(m, x, a, n) = [M EXCEPT !.obj = [m.obj EXCEPT ![x] = o]]
    BY <1>2, <2>3, <2>4
  <2>. QED
    BY <2>2, <2>5
<1>. QED
  BY <1>2, <1>3 DEF Shape

\* What a primitive leaves: the sequences w instead of v, d objects more.
Leaves(m, v, m2, w, d) == Keeps(m2, w) /\ m2.alive = m.alive + d

Others(m, m2, S) == \A z \in All \ S : m2.obj[z] = m.obj[z]

\* Overwrite and ResizedFacts in one.
LEMMA OverwriteSized ==
  ASSUME SequenceConstants, NEW m, NEW v, Keeps(m, v), NEW x \in All, NEW cells, NEW q \in Seq(Elem),
         Len(q) <= Capacity(m, x), Over(m, x, cells) = Pad(q, Capacity(m, x)), NEW a \in Int,
         NEW m2, m2 = Resized(Put(m, x, cells), x, a, Len(q))
  PROVE  Keeps(m2, With(v, x, q)) /\ m2.alive = a /\ Others(m, m2, {x})
<1>1. Shape(Put(m, x, cells))
  BY PutShape
<1>2. /\ Shape(m2) /\ m2.heap = Put(m, x, cells).heap /\ m2.alive = a
      /\ m2.obj[x] = WithSize(Put(m, x, cells).obj[x], Len(q))
      /\ \A z \in All \ {x} : m2.obj[z] = Put(m, x, cells).obj[z]
  BY <1>1, ResizedFacts
<1>3. Keeps(m2, With(v, x, q)) /\ \A z \in All \ {x} : m2.obj[z] = m.obj[z]
  BY <1>2, Overwrite
<1>. QED
  BY <1>2, <1>3 DEF Others

\* Objects are constructed past the end.
Constructed(m, v, x, q, m2) ==
    /\ Len(v[x]) + Len(q) <= Capacity(m, x)
    /\ m2 = SetSize(Construct(m, x, Len(v[x]), q), x, Len(v[x]) + Len(q))

\* Elements constructed past the end are appended.
LEMMA ConstructFacts ==
  ASSUME SequenceConstants, NEW m, NEW v, Keeps(m, v), NEW x \in All, NEW q \in Seq(Elem),
         NEW m2, Constructed(m, v, x, q, m2)
  PROVE  Keeps(m2, With(v, x, v[x] \o q)) /\ m2.alive = m.alive + Len(q) /\ Others(m, m2, {x})
<1>1. PICK n \in Nat, C \in Nat, r \in Seq(Elem) : n = Len(v[x]) /\ C = Capacity(m, x) /\ r = v[x]
  BY ObjectFacts
<1>2. Cells(m, x) = Pad(r, C) /\ n <= C
  BY <1>1, ObjectFacts
<1> DEFINE cells == [i \in n + 1 .. n + Len(q) |-> q[i - n]]
           s == r \o q
<1>3. s \in Seq(Elem) /\ Len(s) = n + Len(q) /\ Len(s) <= C
  BY <1>1 DEF Constructed
<1>4. Over(m, x, cells) = Pad(s, C)
  <2>1. Over(m, x, cells) = [i \in 1 .. C |-> IF i \in DOMAIN cells THEN cells[i] ELSE Pad(r, C)[i]]
    BY <1>1, <1>2 DEF Over
  <2>2. ASSUME NEW i \in 1 .. C
        PROVE  (IF i \in DOMAIN cells THEN cells[i] ELSE Pad(r, C)[i]) = IF i <= Len(s) THEN s[i] ELSE NoObject
    <3>1. Pad(r, C)[i] = IF i <= n THEN r[i] ELSE NoObject
      BY <1>1, <1>2, PadFacts
    <3>2. Len(q) \in Nat
      OBVIOUS
    <3>. QED
      BY <1>1, <1>3, <3>1, <3>2
  <2>. QED
    BY <2>1, <2>2 DEF Pad
<1>5. PICK M : M = Put(m, x, cells)
  OBVIOUS
<1>6. Shape(M) /\ M.alive = m.alive
  BY <1>5, PutShape
<1>7. m2 = Resized(M, x, m.alive + Len(q), Len(s))
  BY <1>1, <1>3, <1>5, <1>6 DEF Constructed, Construct, Resized
<1>8. m.alive + Len(q) \in Int
  BY DEF Keeps, Shape
<1> HIDE DEF cells, s
<1>9. PICK a \in Int : a = m.alive + Len(q)
  BY <1>8
<1>10. /\ s \in Seq(Elem) /\ Len(s) <= Capacity(m, x) /\ Over(m, x, cells) = Pad(s, Capacity(m, x))
       /\ m2 = Resized(Put(m, x, cells), x, a, Len(s))
  BY <1>1, <1>3, <1>4, <1>5, <1>7, <1>9
<1>11. Keeps(m2, With(v, x, s)) /\ m2.alive = a /\ Others(m, m2, {x})
  BY <1>10, OverwriteSized
<1>. QED
  BY <1>1, <1>9, <1>11 DEF s

\* Objects at the end are destroyed.
Truncated(m, v, x, p, m2) == p <= Len(v[x]) /\ m2 = SetSize(Destroy(m, x, p, Len(v[x])), x, p)

\* Elements destroyed from p on leave the first p.
LEMMA DestroyFacts ==
  ASSUME SequenceConstants, NEW m, NEW v, Keeps(m, v), NEW x \in All, NEW p \in Nat,
         NEW m2, Truncated(m, v, x, p, m2)
  PROVE  Keeps(m2, With(v, x, SubSeq(v[x], 1, p))) /\ m2.alive = m.alive - (Len(v[x]) - p) /\ Others(m, m2, {x})
<1>1. PICK n \in Nat, C \in Nat, r \in Seq(Elem) : n = Len(v[x]) /\ C = Capacity(m, x) /\ r = v[x]
  BY ObjectFacts
<1>2. Cells(m, x) = Pad(r, C) /\ n <= C
  BY <1>1, ObjectFacts
<1> DEFINE cells == [i \in p + 1 .. n |-> NoObject]
           s == SubSeq(r, 1, p)
<1>3. s \in Seq(Elem) /\ Len(s) = p /\ Len(s) <= C /\ p <= n /\ \A i \in 1 .. p : s[i] = r[i]
  BY <1>1, <1>2 DEF Truncated
<1>4. Over(m, x, cells) = Pad(s, C)
  <2>1. Over(m, x, cells) = [i \in 1 .. C |-> IF i \in DOMAIN cells THEN cells[i] ELSE Pad(r, C)[i]]
    BY <1>1, <1>2 DEF Over
  <2>2. ASSUME NEW i \in 1 .. C
        PROVE  (IF i \in DOMAIN cells THEN cells[i] ELSE Pad(r, C)[i]) = IF i <= Len(s) THEN s[i] ELSE NoObject
    <3>1. Pad(r, C)[i] = IF i <= n THEN r[i] ELSE NoObject
      BY <1>1, <1>2, PadFacts
    <3>. QED
      BY <1>1, <1>3, <3>1
  <2>. QED
    BY <2>1, <2>2 DEF Pad
<1>5. PICK M : M = Put(m, x, cells)
  OBVIOUS
<1>6. Shape(M) /\ M.alive = m.alive
  BY <1>5, PutShape
<1>7. m2 = Resized(M, x, m.alive - (n - p), Len(s))
  BY <1>1, <1>3, <1>5, <1>6 DEF Truncated, Destroy, Resized
<1>8. m.alive - (n - p) \in Int
  BY DEF Keeps, Shape
<1> HIDE DEF cells, s
<1>9. PICK a \in Int : a = m.alive - (n - p)
  BY <1>8
<1>10. /\ s \in Seq(Elem) /\ Len(s) <= Capacity(m, x) /\ Over(m, x, cells) = Pad(s, Capacity(m, x))
       /\ m2 = Resized(Put(m, x, cells), x, a, Len(s))
  BY <1>1, <1>3, <1>4, <1>5, <1>7, <1>9
<1>11. Keeps(m2, With(v, x, s)) /\ m2.alive = a /\ Others(m, m2, {x})
  BY <1>10, OverwriteSized
<1>. QED
  BY <1>1, <1>9, <1>11 DEF s

\* The empty representation holds the empty sequence.
LEMMA EmptyFacts ==
  ASSUME SequenceConstants
  PROVE  /\ Empty = Inside(<<>>) /\ <<>> \in Seq(Elem) /\ Len(<<>>) = 0
         /\ Empty.buf = Null /\ Empty.flag = 0 /\ Empty.n = 0
         /\ \A m, x : m.obj[x] = Empty => Holds(m, x, <<>>) /\ IsInside(m, x, <<>>)
<1>1. Pad(<<>>, ShortCapacity) = [i \in 1 .. ShortCapacity |-> NoObject]
  <2>1. ASSUME NEW i \in 1 .. ShortCapacity PROVE ~ (i <= Len(<<>>))
    BY ConstantFacts
  <2>. QED
    BY <2>1 DEF Pad
<1>2. Empty = Inside(<<>>) /\ Len(<<>>) = 0
  BY <1>1 DEF Empty, Inside, Short
<1>. QED
  BY <1>2, ConstantFacts DEF Empty, Holds, IsInside

Emptied(m, v, x, a, m2) ==
    Keeps(m2, With(v, x, <<>>)) /\ m2.alive = a /\ Others(m, m2, {x}) /\ m2.obj[x] = Empty

\* The buffer of an object, whose cells may have changed, is given back.
LEMMA ReleaseFacts ==
  ASSUME SequenceConstants, NEW m, NEW v, Keeps(m, v), NEW x \in All,
         NEW M, Shape(M), M.obj[x].buf = m.obj[x].buf, IsSmall(M, x) <=> IsSmall(m, x), Others(m, M, {x}),
         \A b \in Buffer : b # m.obj[x].buf => M.heap[b] = m.heap[b],
         NEW m2, m2 = ClearWithoutDestruction(M, x)
  PROVE  Emptied(m, v, x, M.alive, m2)
<1>1. Holds(m, x, v[x]) /\ v[x] \in Seq(Elem)
  BY DEF Keeps
<1>2. PICK F : F = FreeBuffer(M, x)
  OBVIOUS
<1>3. ASSUME F.obj = M.obj, F.alive = M.alive, Shape(F),
             \A b \in Buffer : b # m.obj[x].buf => F.heap[b] = m.heap[b],
             m.obj[x].buf \in Buffer => F.heap[m.obj[x].buf] = Released
      PROVE  Emptied(m, v, x, M.alive, m2)
  <2>1. m2 = [heap |-> F.heap, obj |-> [F.obj EXCEPT ![x] = Empty], alive |-> F.alive]
    <3>1. m2 = [F EXCEPT !.obj = [F.obj EXCEPT ![x] = Empty]]
      BY <1>2 DEF ClearWithoutDestruction
    <3>2. F = [heap |-> F.heap, obj |-> F.obj, alive |-> F.alive]
      BY <1>3 DEF Shape
    <3>. QED
      BY <3>1, <3>2
  <2>2. /\ Shape(m2) /\ m2.obj[x] = Empty /\ m2.alive = M.alive /\ m2.heap = F.heap
        /\ \A z \in All \ {x} : m2.obj[z] = F.obj[z]
    BY <1>3, <2>1 DEF Shape
  <2>3. \A z \in All \ {x} : m2.obj[z] = m.obj[z]
    BY <1>3, <2>2 DEF Others
  <2>4. m2.obj[x].buf = Null /\ Null \notin Buffer /\ Holds(m2, x, <<>>) /\ <<>> \in Seq(Elem)
    BY <2>2, EmptyFacts, ConstantFacts
  <2>5. \A b \in Buffer : b # m.obj[x].buf => m2.heap[b] = m.heap[b]
    BY <1>3, <2>2
  <2>6. m.obj[x].buf \in Buffer => m2.heap[m.obj[x].buf] = Released
    BY <1>3, <2>2
  <2>7. Keeps(m2, With(v, x, <<>>))
    BY <2>2, <2>3, <2>4, <2>5, <2>6, ChangeOne
  <2>. QED
    BY <2>2, <2>3, <2>7 DEF Others, Emptied
<1>4. CASE IsInside(m, x, v[x])
  <2>1. m.obj[x].buf = Null
    BY <1>1, <1>4, InsideFacts
  <2>2. F = M
    BY <1>2, <2>1 DEF FreeBuffer
  <2>. QED
    BY <1>3, <2>1, <2>2, ConstantFacts
<1>5. ASSUME NEW b \in Buffer, NEW c \in Nat, IsOutside(m, x, v[x], b, c)
      PROVE  Emptied(m, v, x, M.alive, m2)
  <2>1. m.obj[x].buf = b /\ b # Null /\ ~IsSmall(m, x)
    <3>1. ReadOutside(m, x, v[x], b, c)
      BY <1>5, OutsideOf
    <3>. QED
      BY <3>1 DEF ReadOutside
  <2>2. F = [M EXCEPT !.heap = [M.heap EXCEPT ![b] = Released]]
    BY <1>2, <2>1 DEF FreeBuffer
  <2>3. F = [heap |-> [M.heap EXCEPT ![b] = Released], obj |-> M.obj, alive |-> M.alive]
    BY <2>2 DEF Shape
  <2>4. /\ F.obj = M.obj /\ F.alive = M.alive /\ Shape(F)
        /\ F.heap[b] = Released /\ \A d \in Buffer \ {b} : F.heap[d] = M.heap[d]
    BY <2>3 DEF Shape
  <2>5. \A d \in Buffer : d # m.obj[x].buf => F.heap[d] = m.heap[d]
    BY <2>1, <2>4
  <2>. QED
    BY <1>3, <2>1, <2>4, <2>5
<1>. QED
  BY <1>1, <1>4, <1>5 DEF Holds

\* clear: the elements and the buffer are gone.
LEMMA ClearFacts ==
  ASSUME SequenceConstants, NEW m, NEW v, Keeps(m, v), NEW x \in All,
         NEW m2, m2 = ClearStorage(m, x)
  PROVE  Emptied(m, v, x, m.alive - Len(v[x]), m2)
<1>1. PICK n \in Nat : n = Len(v[x]) /\ Size(m, x) = n
  BY ObjectFacts
<1>2. PICK P, cells : P = Put(m, x, cells) /\ cells = [i \in 0 + 1 .. n |-> NoObject]
  OBVIOUS
<1>3. PICK M : M = Destroy(m, x, 0, n)
  OBVIOUS
<1>4. Shape(P) /\ P.alive = m.alive /\ Shape(m) /\ Holds(m, x, v[x]) /\ v[x] \in Seq(Elem)
  BY <1>2, PutShape DEF Keeps
<1>5. M = [heap |-> P.heap, obj |-> P.obj, alive |-> m.alive - n]
  <2>1. M = [P EXCEPT !.alive = m.alive - n]
    <3>1. M = [P EXCEPT !.alive = P.alive - (n - 0)]
      BY <1>2, <1>3 DEF Destroy
    <3>2. n - 0 = n
      OBVIOUS
    <3>. QED
      BY <1>4, <3>1, <3>2
  <2>2. P = [heap |-> P.heap, obj |-> P.obj, alive |-> P.alive]
    BY <1>4 DEF Shape
  <2>. QED
    BY <2>1, <2>2
<1>6. Shape(M) /\ M.heap = P.heap /\ M.obj = P.obj /\ M.alive = m.alive - n
  BY <1>4, <1>5 DEF Shape
<1>7. m2 = ClearWithoutDestruction(M, x)
  BY <1>1, <1>3 DEF ClearStorage
<1>8. CASE IsInside(m, x, v[x])
  <2>1. /\ P.heap = m.heap /\ P.obj[x] = Short(Len(v[x]), Over(m, x, cells))
        /\ \A z \in All \ {x} : P.obj[z] = m.obj[z]
    BY <1>2, <1>8, PutInside
  <2>2. m.obj[x].buf = Null /\ m.obj[x].flag = 0
    BY <1>4, <1>8, InsideFacts
  <2>3. P.obj[x].buf = Null /\ P.obj[x].flag = 0
    BY <2>1 DEF Short
  <2>4. /\ M.obj[x].buf = m.obj[x].buf /\ Others(m, M, {x})
        /\ \A b \in Buffer : b # m.obj[x].buf => M.heap[b] = m.heap[b]
    BY <1>6, <2>1, <2>2, <2>3 DEF Others
  <2>5. IsSmall(M, x) <=> IsSmall(m, x)
    BY <1>6, <2>2, <2>3 DEF IsSmall
  <2>6. Emptied(m, v, x, M.alive, m2)
    BY <1>6, <1>7, <2>4, <2>5, ReleaseFacts
  <2>. QED
    BY <1>1, <1>6, <2>6
<1>9. ASSUME NEW b \in Buffer, NEW c \in Nat, IsOutside(m, x, v[x], b, c)
      PROVE  Emptied(m, v, x, m.alive - Len(v[x]), m2)
  <2>1. P.obj = m.obj /\ \A d \in Buffer \ {b} : P.heap[d] = m.heap[d]
    <3>1. PutThere(m, x, cells, b, P)
      BY <1>2, <1>9, PutOutside
    <3>. QED
      BY <3>1 DEF PutThere
  <2>2. m.obj[x].buf = b
    <3>1. ReadOutside(m, x, v[x], b, c)
      BY <1>9, OutsideOf
    <3>. QED
      BY <3>1 DEF ReadOutside
  <2>3. /\ M.obj[x].buf = m.obj[x].buf /\ Others(m, M, {x})
        /\ \A d \in Buffer : d # m.obj[x].buf => M.heap[d] = m.heap[d]
    BY <1>6, <2>1, <2>2 DEF Others
  <2>4. IsSmall(M, x) <=> IsSmall(m, x)
    BY <1>6, <2>1 DEF IsSmall
  <2>6. Emptied(m, v, x, M.alive, m2)
    BY <1>6, <1>7, <2>3, <2>4, ReleaseFacts
  <2>. QED
    BY <1>1, <1>6, <2>6
<1>. QED
  BY <1>4, <1>8, <1>9 DEF Holds

-----------------------------------------------------------------------------
(* Buffers are allocated. *)

\* A buffer is in use or released.
LEMMA UsedFacts ==
  ASSUME SequenceConstants, NEW m, NEW v, Keeps(m, v), NEW b \in Buffer
  PROVE  m.heap[b].used \/ m.heap[b] = Released
<1>1. SUFFICES ASSUME m.heap[b] # Released PROVE m.heap[b].used
  OBVIOUS
<1>2. PICK x \in All : m.obj[x].buf = b
  BY <1>1 DEF Keeps
<1>3. Holds(m, x, v[x]) /\ v[x] \in Seq(Elem)
  BY DEF Keeps
<1>4. ~IsInside(m, x, v[x])
  BY <1>2, <1>3, InsideFacts, ConstantFacts
<1>5. PICK d \in Buffer, c \in Nat : IsOutside(m, x, v[x], d, c)
  BY <1>3, <1>4 DEF Holds
<1>6. d = b
  <2>1. ReadOutside(m, x, v[x], d, c)
    BY <1>5, OutsideOf
  <2>. QED
    BY <1>2, <2>1 DEF ReadOutside
<1>7. m.heap[b] = Allocated(Pad(v[x], c))
  BY <1>5, <1>6 DEF IsOutside
<1>. QED
  BY <1>7, ReleasedFacts

\* An object has one buffer at most, and there are more buffers than objects.
LEMMA UnusedFacts ==
  ASSUME SequenceConstants, NEW m, NEW v, Keeps(m, v)
  PROVE  Unused(m) \in Buffer /\ m.heap[Unused(m)] = Released
<1> DEFINE T == {b \in Buffer : ~m.heap[b].used}
<1>1. T # {}
  <2>1. SUFFICES ASSUME T = {} PROVE FALSE
    OBVIOUS
  <2> DEFINE f == [b \in Buffer |-> CHOOSE x \in All : m.obj[x].buf = b]
  <2>2. ASSUME NEW b \in Buffer PROVE f[b] \in All /\ m.obj[f[b]].buf = b
    <3>1. m.heap[b] # Released
      BY <2>1, ReleasedFacts
    <3>2. \E x \in All : m.obj[x].buf = b
      BY <3>1 DEF Keeps
    <3>. QED
      BY <3>2
  <2>3. f \in [Buffer -> All]
    BY <2>2
  <2>4. Cardinality(All) < Cardinality(Buffer) /\ IsFiniteSet(All) /\ IsFiniteSet(Buffer)
    <3>1. Cardinality(All) \in Nat /\ Cardinality(Buffer) \in Nat
      BY ConstantFacts, FS_CardinalityType
    <3>. QED
      BY <3>1, ConstantFacts
  <2> HIDE DEF f
  <2>5. \E b, d \in Buffer : b # d /\ f[b] = f[d]
    BY <2>3, <2>4, FS_PigeonHole
  <2>. QED
    BY <2>2, <2>5
<1>2. T \in SUBSET Nat
  BY ConstantFacts
<1>3. PICK b \in T : \A d \in T : b <= d
  <2> HIDE DEF T
  <2>. QED
    BY <1>1, <1>2, LeastNat
<1>4. \A d \in 1 .. b - 1 : m.heap[d].used
  <2>1. SUFFICES ASSUME NEW d \in 1 .. b - 1, ~m.heap[d].used PROVE FALSE
    OBVIOUS
  <2>2. b \in Nat /\ b <= Cardinality(Buffer) /\ Cardinality(Buffer) \in Nat
    BY ConstantFacts
  <2>3. d \in 1 .. Cardinality(Buffer) /\ ~ (b <= d)
    BY <2>1, <2>2
  <2>4. d \in T
    BY <2>1, <2>3, ConstantFacts
  <2>. QED
    BY <1>3, <2>3, <2>4
<1>5. \E d \in Buffer : ~m.heap[d].used /\ \A e \in 1 .. d - 1 : m.heap[e].used
  BY <1>4
<1>6. Unused(m) \in Buffer /\ ~m.heap[Unused(m)].used
  BY <1>5 DEF Unused
<1>. QED
  BY <1>6, UsedFacts

WithBuffer(m, x, b, cells, n) == [m EXCEPT !.heap[b] = Allocated(cells), !.obj[x] = Long(b, n)]

\* What changes when an object gets a buffer.
LEMMA WithBufferFacts ==
  ASSUME NEW m, Shape(m), NEW x \in All, NEW b \in Buffer, NEW cells, NEW n,
         NEW m2, m2 = WithBuffer(m, x, b, cells, n)
  PROVE  /\ Shape(m2) /\ m2.alive = m.alive /\ m2.obj[x] = Long(b, n) /\ m2.heap[b] = Allocated(cells)
         /\ \A z \in All \ {x} : m2.obj[z] = m.obj[z]
         /\ \A d \in Buffer \ {b} : m2.heap[d] = m.heap[d]
<1>1. PICK A, O : A = Allocated(cells) /\ O = Long(b, n)
  OBVIOUS
<1>2. m2 = [m EXCEPT !.heap[b] = A, !.obj[x] = O]
  BY <1>1 DEF WithBuffer
<1>3. m = [heap |-> m.heap, obj |-> m.obj, alive |-> m.alive]
  BY DEF Shape
<1>4. m2 = [heap |-> [m.heap EXCEPT ![b] = A], obj |-> [m.obj EXCEPT ![x] = O], alive |-> m.alive]
  BY <1>2, <1>3
<1>. QED
  BY <1>1, <1>4 DEF Shape

GivenBack(m, x, F) ==
    /\ Shape(F) /\ F.obj = m.obj /\ F.alive = m.alive
    /\ \A b \in Buffer : b # m.obj[x].buf => F.heap[b] = m.heap[b]
    /\ m.obj[x].buf \in Buffer => F.heap[m.obj[x].buf] = Released

MovedTo(m, v, x, F, c, m2) ==
    /\ GivenBack(m, x, F) /\ c \in Nat /\ Len(v[x]) <= c
    /\ m2 = WithBuffer(F, x, Unused(m), Pad(v[x], c), Len(v[x]))

\* The sequence of an object moves to a buffer that nobody had.
LEMMA MoveIntoBuffer ==
  ASSUME SequenceConstants, NEW m, NEW v, Keeps(m, v), NEW x \in All,
         NEW F, NEW c, NEW m2, MovedTo(m, v, x, F, c, m2)
  PROVE  Keeps(m2, v) /\ m2.alive = m.alive /\ Others(m, m2, {x}) /\ Capacity(m2, x) = c
<1>0. /\ Shape(F) /\ F.obj = m.obj /\ F.alive = m.alive
      /\ \A b \in Buffer : b # m.obj[x].buf => F.heap[b] = m.heap[b]
      /\ m.obj[x].buf \in Buffer => F.heap[m.obj[x].buf] = Released
      /\ c \in Nat /\ Len(v[x]) <= c /\ m2 = WithBuffer(F, x, Unused(m), Pad(v[x], c), Len(v[x]))
  BY DEF GivenBack, MovedTo
<1>1. PICK U : U = Unused(m)
  OBVIOUS
<1>2. U \in Buffer /\ m.heap[U] = Released /\ m2 = WithBuffer(F, x, U, Pad(v[x], c), Len(v[x]))
  BY <1>0, <1>1, UnusedFacts
<1>3. /\ Shape(m2) /\ m2.alive = F.alive /\ m2.obj[x] = Long(U, Len(v[x])) /\ m2.heap[U] = Allocated(Pad(v[x], c))
      /\ \A z \in All \ {x} : m2.obj[z] = F.obj[z]
      /\ \A d \in Buffer \ {U} : m2.heap[d] = F.heap[d]
  BY <1>0, <1>2, WithBufferFacts
<1>4. IsOutside(m2, x, v[x], U, c) /\ v[x] \in Seq(Elem)
  BY <1>0, <1>3 DEF IsOutside, Keeps
<1>5. m2.obj[x].buf = U /\ Holds(m2, x, v[x])
  BY <1>0, <1>2, <1>3, <1>4 DEF Holds, Long
<1>6. \A z \in All \ {x} : m2.obj[z] = m.obj[z]
  BY <1>0, <1>3
<1>7. \A b \in Buffer : b # m.obj[x].buf /\ b # m2.obj[x].buf => m2.heap[b] = m.heap[b]
  BY <1>0, <1>3, <1>5
<1>8. m.obj[x].buf \in Buffer /\ m.obj[x].buf # m2.obj[x].buf => m2.heap[m.obj[x].buf] = Released
  BY <1>0, <1>3, <1>5
<1>9. m2.obj[x].buf \in Buffer => m2.obj[x].buf = m.obj[x].buf \/ m.heap[m2.obj[x].buf] = Released
  BY <1>2, <1>5
<1>10. Keeps(m2, With(v, x, v[x]))
  BY <1>3, <1>4, <1>5, <1>6, <1>7, <1>8, <1>9, ChangeOne
<1>11. With(v, x, v[x]) = v
  BY DEF With, Keeps
<1>12. Keeps(m2, v)
  BY <1>10, <1>11
<1>13. ReadOutside(m2, x, v[x], U, c)
  BY <1>0, <1>2, <1>4, <1>12, OutsideOf
<1>14. Capacity(m2, x) = c
  BY <1>13 DEF ReadOutside
<1>. QED
  BY <1>0, <1>3, <1>6, <1>12, <1>14 DEF Others

\* The cells of an object with nothing in it.
LEMMA NoCells ==
  ASSUME NEW c \in Nat
  PROVE  Pad(<<>>, c) = [i \in 1 .. c |-> NoObject]
<1>1. ASSUME NEW i \in 1 .. c PROVE ~ (i <= Len(<<>>))
  OBVIOUS
<1>. QED
  BY <1>1 DEF Pad

\* An object of size 0 with cells holds the empty sequence.
LEMMA EmptyHolds ==
  ASSUME SequenceConstants, NEW m, NEW v, Keeps(m, v), NEW x \in All, m.obj[x] = Empty
  PROVE  v[x] = <<>>
<1>1. Size(m, x) = 0 /\ v[x] \in Seq(Elem) /\ Size(m, x) = Len(v[x])
  BY EmptyFacts, ObjectFacts DEF Size
<1>. QED
  BY <1>1

\* initialize_capacity: room, and nothing in it.
LEMMA InitializeCapacityFacts ==
  ASSUME SequenceConstants, NEW m, NEW v, Keeps(m, v), NEW x \in All, m.obj[x] = Empty, NEW desired \in Nat,
         NEW m2, m2 = InitializeCapacity(m, x, desired)
  PROVE  Keeps(m2, v) /\ m2.alive = m.alive /\ Others(m, m2, {x}) /\ Capacity(m2, x) >= desired
<1>1. Shape(m) /\ v[x] = <<>> /\ IsInside(m, x, v[x])
  BY EmptyHolds, EmptyFacts DEF Keeps
<1>2. CASE ShortCapacity > 0 /\ desired <= ShortCapacity
  <2>1. m2 = m
    <3>1. m2 = [m EXCEPT !.obj = [m.obj EXCEPT ![x] = [m.obj[x] EXCEPT !.flag = 0]]]
      BY <1>2 DEF InitializeCapacity
    <3>2. [m.obj[x] EXCEPT !.flag = 0] = m.obj[x]
      <4>1. PICK s : m.obj[x] = Short(0, s)
        BY DEF Empty, Short
      <4>. QED
        BY <4>1 DEF Short
    <3>3. [m.obj EXCEPT ![x] = m.obj[x]] = m.obj
      BY <1>1 DEF Shape
    <3>4. m2 = [m EXCEPT !.obj = m.obj]
      BY <3>1, <3>2, <3>3
    <3>. QED
      BY <1>1, <3>4 DEF Shape
  <2>2. Capacity(m, x) = ShortCapacity
    BY <1>1, EmptyFacts, InsideFacts
  <2>. QED
    BY <1>1, <1>2, <2>1, <2>2, ConstantFacts DEF Others, Keeps, Shape
<1>3. CASE ~ (ShortCapacity > 0 /\ desired <= ShortCapacity)
  <2>1. Pad(v[x], desired) = [i \in 1 .. desired |-> NoObject] /\ Len(v[x]) = 0
    BY <1>1, NoCells, EmptyFacts
  <2>2. m2 = WithBuffer(m, x, Unused(m), Pad(v[x], desired), Len(v[x]))
    BY <1>3, <2>1 DEF InitializeCapacity, WithBuffer
  <2>3. GivenBack(m, x, m)
    BY <1>1, EmptyFacts, ConstantFacts DEF GivenBack
  <2>4. Keeps(m2, v) /\ m2.alive = m.alive /\ Others(m, m2, {x}) /\ Capacity(m2, x) = desired
    <3>1. MovedTo(m, v, x, m, desired, m2)
      BY <2>1, <2>2, <2>3 DEF MovedTo
    <3>. QED
      BY <3>1, MoveIntoBuffer
  <2>. QED
    BY <1>1, <2>4
<1>. QED
  BY <1>2, <1>3

\* ensure_capacity: room, and the same elements in it.
LEMMA EnsureCapacityFacts ==
  ASSUME SequenceConstants, NEW m, NEW v, Keeps(m, v), NEW x \in All, NEW desired \in Nat,
         NEW m2, m2 = EnsureCapacity(m, x, desired)
  PROVE  Keeps(m2, v) /\ m2.alive = m.alive /\ Others(m, m2, {x}) /\ Capacity(m2, x) >= desired
<1>1. PICK n \in Nat, C \in Nat, r \in Seq(Elem) : n = Len(v[x]) /\ C = Capacity(m, x) /\ r = v[x] /\ n = Size(m, x)
  BY ObjectFacts
<1>2. Cells(m, x) = Pad(r, C) /\ n <= C /\ Shape(m) /\ Holds(m, x, v[x])
  BY <1>1, ObjectFacts DEF Keeps
<1>3. CASE desired <= C
  <2>1. m2 = m
    BY <1>1, <1>3 DEF EnsureCapacity
  <2>. QED
    BY <1>1, <1>3, <2>1 DEF Others, Keeps, Shape
<1>4. CASE ~ (desired <= C)
  <2>1. PICK c \in Nat : c = (IF desired >= (5 * C) \div 2 THEN desired ELSE (5 * C) \div 2) /\ c >= desired
    <3>1. (5 * C) \div 2 \in Nat
      OBVIOUS
    <3>. QED
      BY <3>1
  <2>2. Pad(r, c) = [i \in 1 .. c |-> IF i <= n THEN Cells(m, x)[i] ELSE NoObject]
    <3>1. ASSUME NEW i \in 1 .. c, i <= n PROVE Cells(m, x)[i] = r[i]
      <4>1. i \in 1 .. C /\ Len(r) <= C
        BY <1>1, <1>2, <3>1
      <4>2. \A j \in 1 .. C : Pad(r, C)[j] = IF j <= Len(r) THEN r[j] ELSE NoObject
        BY <4>1, PadFacts
      <4>. QED
        BY <1>1, <1>2, <3>1, <4>1, <4>2
    <3>. QED
      BY <1>1, <3>1 DEF Pad
  <2>3. PICK F : F = FreeBuffer(m, x)
    OBVIOUS
  <2>4. m2 = WithBuffer(F, x, Unused(m), Pad(v[x], c), Len(v[x]))
    <3>1. m2 = [F EXCEPT
                  !.heap[Unused(m)] = Allocated([i \in 1 .. c |-> IF i <= n THEN Cells(m, x)[i] ELSE NoObject]),
                  !.obj[x] = Long(Unused(m), n)]
      BY <1>1, <1>4, <2>1, <2>3 DEF EnsureCapacity
    <3>2. m2 = WithBuffer(F, x, Unused(m), Pad(r, c), n)
      BY <2>2, <3>1 DEF WithBuffer
    <3>. QED
      BY <1>1, <3>2
  <2>5. GivenBack(m, x, F)
    <3>1. CASE IsInside(m, x, v[x])
      <4>1. m.obj[x].buf = Null
        BY <1>1, <3>1, InsideFacts
      <4>. QED
        BY <1>2, <2>3, <4>1, ConstantFacts DEF FreeBuffer, GivenBack
    <3>2. ASSUME NEW b \in Buffer, NEW d \in Nat, IsOutside(m, x, v[x], b, d)
          PROVE  GivenBack(m, x, F)
      <4>1. m.obj[x].buf = b /\ b # Null /\ ~IsSmall(m, x)
        <5>1. ReadOutside(m, x, v[x], b, d)
          BY <3>2, OutsideOf
        <5>. QED
          BY <5>1 DEF ReadOutside
      <4>2. F = [m EXCEPT !.heap = [m.heap EXCEPT ![b] = Released]]
        BY <2>3, <4>1 DEF FreeBuffer
      <4>3. F = [heap |-> [m.heap EXCEPT ![b] = Released], obj |-> m.obj, alive |-> m.alive]
        BY <1>2, <4>2 DEF Shape
      <4>. QED
        BY <1>2, <4>1, <4>3 DEF Shape, GivenBack
    <3>. QED
      BY <1>2, <3>1, <3>2 DEF Holds
  <2>6. Len(v[x]) <= c
    BY <1>1, <1>2, <1>4, <2>1
  <2>7. Keeps(m2, v) /\ m2.alive = m.alive /\ Others(m, m2, {x}) /\ Capacity(m2, x) = c
    <3>1. MovedTo(m, v, x, F, c, m2)
      BY <2>4, <2>5, <2>6 DEF MovedTo
    <3>. QED
      BY <3>1, MoveIntoBuffer
  <2>. QED
    BY <2>1, <2>7
<1>. QED
  BY <1>1, <1>3, <1>4

-----------------------------------------------------------------------------
(* The member functions that the others are made of. *)

\* v with q for x.
LEMMA WithFacts ==
  ASSUME NEW v \in [All -> Seq(Elem)], NEW x \in All, NEW q \in Seq(Elem)
  PROVE  /\ With(v, x, q) \in [All -> Seq(Elem)] /\ With(v, x, q)[x] = q
         /\ \A z \in All \ {x} : With(v, x, q)[z] = v[z]
         /\ With(v, x, v[x]) = v
         /\ \A r \in Seq(Elem) : With(With(v, x, r), x, q) = With(v, x, q)
BY DEF With

\* initialize_range and initialize_fill.
LEMMA InitializeFacts ==
  ASSUME SequenceConstants, NEW m, NEW v, Keeps(m, v), NEW x \in All, m.obj[x] = Empty, NEW q \in Seq(Elem),
         NEW m2, m2 = Initialize(m, x, q)
  PROVE  Keeps(m2, With(v, x, q)) /\ m2.alive = m.alive + Len(q) /\ Others(m, m2, {x})
<1>1. PICK I : I = InitializeCapacity(m, x, Len(q))
  OBVIOUS
<1>2. PICK n \in Nat : n = Len(q)
  OBVIOUS
<1>3. Keeps(I, v) /\ I.alive = m.alive /\ Others(m, I, {x}) /\ Capacity(I, x) >= Len(q) /\ v[x] = <<>>
  <2>1. I = InitializeCapacity(m, x, n)
    BY <1>1, <1>2
  <2>2. Keeps(I, v) /\ I.alive = m.alive /\ Others(m, I, {x}) /\ Capacity(I, x) >= n
    BY <2>1, InitializeCapacityFacts
  <2>. QED
    BY <1>2, <2>2, EmptyHolds
<1>4. Len(v[x]) = 0 /\ v[x] \o q = q /\ 0 + Len(q) = Len(q)
  BY <1>3, EmptyFacts
<1>5. m2 = SetSize(Construct(I, x, Len(v[x]), q), x, Len(v[x]) + Len(q))
  BY <1>1, <1>4 DEF Initialize
<1>6. Len(v[x]) + Len(q) <= Capacity(I, x)
  BY <1>2, <1>3, <1>4, ObjectFacts
<1>7. Keeps(m2, With(v, x, v[x] \o q)) /\ m2.alive = I.alive + Len(q) /\ Others(I, m2, {x})
  <2>1. Constructed(I, v, x, q, m2)
    BY <1>5, <1>6 DEF Constructed
  <2>. QED
    BY <1>3, <2>1, ConstructFacts
<1>8. Keeps(m2, With(v, x, q)) /\ m2.alive = m.alive + Len(q)
  BY <1>3, <1>4, <1>7
<1>. QED
  BY <1>3, <1>7, <1>8 DEF Others

\* append_range and append_n.
LEMMA AppendFacts ==
  ASSUME SequenceConstants, NEW m, NEW v, Keeps(m, v), NEW x \in All, NEW q \in Seq(Elem),
         NEW m2, m2 = Append_(m, x, q)
  PROVE  Keeps(m2, With(v, x, v[x] \o q)) /\ m2.alive = m.alive + Len(q) /\ Others(m, m2, {x})
<1>1. PICK n \in Nat : n = Len(v[x]) /\ n = Size(m, x)
  BY ObjectFacts
<1>2. PICK I : I = EnsureCapacity(m, x, n + Len(q))
  OBVIOUS
<1>3. n + Len(q) \in Nat
  OBVIOUS
<1>4. Keeps(I, v) /\ I.alive = m.alive /\ Others(m, I, {x}) /\ Capacity(I, x) >= n + Len(q)
  BY <1>2, <1>3, EnsureCapacityFacts
<1>5. m2 = SetSize(Construct(I, x, Len(v[x]), q), x, Len(v[x]) + Len(q))
  BY <1>1, <1>2 DEF Append_
<1>6. Len(v[x]) + Len(q) <= Capacity(I, x)
  BY <1>1, <1>3, <1>4, ObjectFacts
<1>7. Keeps(m2, With(v, x, v[x] \o q)) /\ m2.alive = I.alive + Len(q) /\ Others(I, m2, {x})
  <2>1. Constructed(I, v, x, q, m2)
    BY <1>5, <1>6 DEF Constructed
  <2>. QED
    BY <1>4, <2>1, ConstructFacts
<1>. QED
  BY <1>4, <1>7 DEF Others

Swapped(m, v, x, y, m2) ==
    /\ Keeps(m2, With(With(v, x, v[y]), y, v[x])) /\ m2.alive = m.alive /\ Others(m, m2, {x, y})
    /\ m2.obj[x] = m.obj[y] /\ m2.obj[y] = m.obj[x]

\* swap exchanges the objects, with their buffers.
LEMMA SwapFacts ==
  ASSUME SequenceConstants, NEW m, NEW v, Keeps(m, v), NEW x \in All, NEW y \in All, x # y,
         NEW m2, m2 = Swap(m, x, y)
  PROVE  Swapped(m, v, x, y, m2)
<1> DEFINE w == With(With(v, x, v[y]), y, v[x])
<1>1. Shape(m) /\ v \in [All -> Seq(Elem)]
  BY DEF Keeps
<1>2. w \in [All -> Seq(Elem)] /\ w[x] = v[y] /\ w[y] = v[x] /\ \A z \in All \ {x, y} : w[z] = v[z]
  BY <1>1 DEF With
<1>3. PICK xo, yo : xo = m.obj[x] /\ yo = m.obj[y]
  OBVIOUS
<1>12. m2 = [heap |-> m.heap, obj |-> [m.obj EXCEPT ![x] = yo, ![y] = xo], alive |-> m.alive]
  <2>1. m = [heap |-> m.heap, obj |-> m.obj, alive |-> m.alive]
    BY <1>1 DEF Shape
  <2>3. m2 = [m EXCEPT !.obj[x] = yo, !.obj[y] = xo]
    BY <1>3 DEF Swap
  <2>. QED
    BY <2>1, <2>3
<1>4. /\ Shape(m2) /\ m2.heap = m.heap /\ m2.alive = m.alive /\ m2.obj[x] = m.obj[y] /\ m2.obj[y] = m.obj[x]
      /\ \A z \in All \ {x, y} : m2.obj[z] = m.obj[z]
  <2>1. m2.obj[x] = yo /\ m2.obj[y] = xo /\ \A z \in All \ {x, y} : m2.obj[z] = m.obj[z]
    BY <1>1, <1>12 DEF Shape
  <2>3. [m.obj EXCEPT ![x] = yo, ![y] = xo] = [z \in All |-> IF z = y THEN xo ELSE IF z = x THEN yo ELSE m.obj[z]]
    BY <1>1 DEF Shape
  <2>4. PICK f : f = [m.obj EXCEPT ![x] = yo, ![y] = xo] /\ f = [z \in All |-> f[z]]
    BY <2>3
  <2>5. m2 = [heap |-> m.heap, obj |-> f, alive |-> m.alive]
    BY <1>12, <2>4
  <2>2. Shape(m2) /\ m2.heap = m.heap /\ m2.alive = m.alive
    BY <1>1, <2>4, <2>5 DEF Shape
  <2>. QED
    BY <1>3, <2>1, <2>2
<1>5. PICK o \in [All -> All] : o[x] = y /\ o[y] = x /\ \A z \in All \ {x, y} : o[z] = z
  <2>1. [z \in All |-> IF z = x THEN y ELSE IF z = y THEN x ELSE z] \in [All -> All]
    OBVIOUS
  <2>. QED
    BY <2>1
<1>6. \A z \in All : m2.obj[z] = m.obj[o[z]] /\ w[z] = v[o[z]] /\ o[z] \in All
  <2>1. ASSUME NEW z \in All PROVE m2.obj[z] = m.obj[o[z]] /\ w[z] = v[o[z]] /\ o[z] \in All
    <3> HIDE DEF w
    <3>1. CASE z = x
      BY <1>2, <1>4, <1>5, <3>1
    <3>2. CASE z = y
      BY <1>2, <1>4, <1>5, <3>2
    <3>3. CASE z \in All \ {x, y}
      BY <1>2, <1>4, <1>5, <3>3
    <3>. QED
      BY <3>1, <3>2, <3>3
  <2>. QED
    BY <2>1
<1>7. \A z, u \in All : o[z] = o[u] => z = u
  BY <1>5
<1>8. \A z \in All : Holds(m2, z, w[z])
  <2>1. ASSUME NEW z \in All PROVE Holds(m2, z, w[z])
    <3>1. Holds(m, o[z], v[o[z]])
      BY <1>6 DEF Keeps
    <3>. QED
      BY <1>4, <1>6, <3>1 DEF Holds, IsInside, IsOutside
  <2>. QED
    BY <2>1
<1>9. \A b \in Buffer : m2.heap[b] = Released \/ \E z \in All : m2.obj[z].buf = b
  <2>1. ASSUME NEW b \in Buffer, NEW z \in All, m.obj[z].buf = b PROVE \E u \in All : m2.obj[u].buf = b
    <3>1. o[o[z]] = z /\ o[z] \in All
      BY <1>5
    <3>2. m2.obj[o[z]] = m.obj[z]
      BY <1>6, <3>1
    <3>. QED
      BY <2>1, <3>1, <3>2
  <2>. QED
    BY <1>4, <2>1 DEF Keeps
<1>10. \A z, u \in All : m2.obj[z].buf \in Buffer /\ m2.obj[z].buf = m2.obj[u].buf => z = u
  <2>1. ASSUME NEW z \in All, NEW u \in All, m2.obj[z].buf \in Buffer, m2.obj[z].buf = m2.obj[u].buf PROVE z = u
    <3>1. m.obj[o[z]].buf \in Buffer /\ m.obj[o[z]].buf = m.obj[o[u]].buf /\ o[z] \in All /\ o[u] \in All
      BY <1>6, <2>1
    <3>2. o[z] = o[u]
      BY <3>1 DEF Keeps
    <3>. QED
      BY <1>7, <3>2
  <2>. QED
    BY <2>1
<1> HIDE DEF w
<1>11. Keeps(m2, w)
  BY <1>2, <1>4, <1>8, <1>9, <1>10 DEF Keeps
<1>. QED
  BY <1>4, <1>11 DEF Others, w, Swapped

\* The copy constructor: cells or elements are copied.
LEMMA CopyFacts ==
  ASSUME SequenceConstants, NEW m, NEW v, Keeps(m, v), NEW x \in All, NEW y \in All, x # y, m.obj[x] = Empty,
         NEW m2, m2 = Copy(m, x, y)
  PROVE  Keeps(m2, With(v, x, v[y])) /\ m2.alive = m.alive + Len(v[y]) /\ Others(m, m2, {x})
<1>1. Size(m, y) = Len(v[y]) /\ Elements(m, y) = v[y] /\ v[y] \in Seq(Elem) /\ Len(v[y]) \in Nat
  BY ObjectFacts
<1>2. CASE IsSmall(m, y)
  <2>1. Holds(m, y, v[y]) /\ Shape(m)
    BY DEF Keeps
  <2>2. IsInside(m, y, v[y])
    <3>1. ASSUME NEW b \in Buffer, NEW c \in Nat PROVE ~IsOutside(m, y, v[y], b, c)
      <4>1. IsOutside(m, y, v[y], b, c) => ReadOutside(m, y, v[y], b, c)
        BY OutsideOf
      <4>. QED
        BY <1>2, <4>1 DEF ReadOutside
    <3>. QED
      BY <2>1, <3>1 DEF Holds
  <2>3. PICK o : o = m.obj[y]
    OBVIOUS
  <2>9. PICK a \in Int : a = m.alive + Len(v[y])
    BY <1>1, <2>1 DEF Shape
  <2>4. m2 = [heap |-> m.heap, obj |-> [m.obj EXCEPT ![x] = o], alive |-> a]
    <3>1. m2 = [m EXCEPT !.obj[x] = o, !.alive = @ + Len(v[y])]
      BY <1>1, <1>2, <2>3 DEF Copy
    <3>2. m = [heap |-> m.heap, obj |-> m.obj, alive |-> m.alive]
      BY <2>1 DEF Shape
    <3>. QED
      BY <2>9, <3>1, <3>2
  <2>5. /\ Shape(m2) /\ m2.heap = m.heap /\ m2.alive = m.alive + Len(v[y]) /\ m2.obj[x] = m.obj[y]
        /\ \A z \in All \ {x} : m2.obj[z] = m.obj[z]
    BY <2>1, <2>3, <2>4, <2>9 DEF Shape
  <2>6. m2.obj[x].buf = Null /\ m.obj[x].buf = Null /\ Null \notin Buffer
    BY <1>1, <2>2, <2>5, InsideFacts, EmptyFacts, ConstantFacts
  <2>7. Holds(m2, x, v[y])
    BY <2>2, <2>5 DEF IsInside, Holds
  <2>8. Keeps(m2, With(v, x, v[y]))
    BY <1>1, <2>5, <2>6, <2>7, ChangeOne
  <2>. QED
    BY <2>5, <2>8 DEF Others
<1>3. CASE ~IsSmall(m, y)
  <2>1. m2 = Initialize(m, x, v[y])
    BY <1>1, <1>3 DEF Copy
  <2>. QED
    BY <1>1, <2>1, InitializeFacts
<1>. QED
  BY <1>2, <1>3

\* move_from: the object goes over, with its buffer.
LEMMA MoveFromFacts ==
  ASSUME SequenceConstants, NEW m, NEW v, Keeps(m, v), NEW x \in All, NEW y \in All, x # y, m.obj[x] = Empty,
         NEW m2, m2 = MoveFrom(m, x, y)
  PROVE  /\ Keeps(m2, With(With(v, x, v[y]), y, v[x])) /\ m2.alive = m.alive /\ Others(m, m2, {x, y})
         /\ m2.obj[x] = m.obj[y] /\ m2.obj[y] = Empty
<1>1. m2 = Swap(m, x, y)
  BY DEF MoveFrom, Swap
<1>2. Swapped(m, v, x, y, m2)
  BY <1>1, SwapFacts
<1>. QED
  BY <1>2 DEF Swapped

\* Writing cells leaves the size.
LEMMA SizeStays ==
  ASSUME SequenceConstants, NEW m, NEW v, Keeps(m, v), NEW x \in All, NEW cells
  PROVE  Put(m, x, cells).obj[x] = WithSize(Put(m, x, cells).obj[x], Len(v[x]))
<1>1. Holds(m, x, v[x])
  BY DEF Keeps
<1>2. CASE IsInside(m, x, v[x])
  <2>1. Put(m, x, cells).obj[x] = Short(Len(v[x]), Over(m, x, cells))
    BY <1>2, PutInside
  <2>2. WithSize(Short(Len(v[x]), Over(m, x, cells)), Len(v[x])) = Short(Len(v[x]), Over(m, x, cells))
    BY DEF WithSize, Short
  <2>. QED
    BY <2>1, <2>2
<1>3. ASSUME NEW b \in Buffer, NEW c \in Nat, IsOutside(m, x, v[x], b, c)
      PROVE  Put(m, x, cells).obj[x] = WithSize(Put(m, x, cells).obj[x], Len(v[x]))
  <2>1. Put(m, x, cells).obj = m.obj
    <3>1. PutThere(m, x, cells, b, Put(m, x, cells))
      BY <1>3, PutOutside
    <3>. QED
      BY <3>1 DEF PutThere
  <2>2. m.obj[x] = Long(b, Len(v[x]))
    BY <1>3 DEF IsOutside
  <2>3. WithSize(Long(b, Len(v[x])), Len(v[x])) = Long(b, Len(v[x]))
    BY DEF WithSize, Long
  <2>. QED
    BY <2>1, <2>2, <2>3
<1>. QED
  BY <1>1, <1>2, <1>3 DEF Holds

\* Moving elements out leaves as many, moved from.
LEMMA MoveOutFacts ==
  ASSUME SequenceConstants, NEW m, NEW v, Keeps(m, v), NEW x \in All,
         NEW m2, m2 = MoveOut(m, x)
  PROVE  Keeps(m2, With(v, x, Left(v[x]))) /\ m2.alive = m.alive /\ Others(m, m2, {x}) /\ Left(v[x]) \in Seq(Elem)
            /\ Len(Left(v[x])) = Len(v[x])
<1>1. v[x] \in Seq(Elem) /\ v \in [All -> Seq(Elem)] /\ Shape(m) /\ Holds(m, x, v[x])
  BY DEF Keeps
<1>2. CASE ShortCapacity > 0
  <2>1. m2 = m /\ Left(v[x]) = v[x] /\ With(v, x, v[x]) = v
    BY <1>1, <1>2, WithFacts DEF MoveOut, Left
  <2>. QED
    BY <1>1, <2>1 DEF Others
<1>3. CASE ~ (ShortCapacity > 0)
  <2>1. PICK n \in Nat, C \in Nat, r \in Seq(Elem) : n = Len(v[x]) /\ C = Capacity(m, x) /\ r = v[x]
    BY ObjectFacts
  <2>2. Cells(m, x) = Pad(r, C) /\ n <= C /\ Size(m, x) = n
    BY <2>1, ObjectFacts
  <2> DEFINE cells == [i \in 1 .. n |-> Moved]
  <2>3. Left(r) = cells
    BY <1>3, <2>1 DEF Left
  <2>4. Moved \in Elem
    BY DEF Elem
  <2>5. cells \in Seq(Elem) /\ Len(cells) = n /\ DOMAIN cells = 1 .. n
    BY <2>1, <2>4
  <2>6. Over(m, x, cells) = Pad(cells, C)
    <3>1. Over(m, x, cells) = [i \in 1 .. C |-> IF i \in DOMAIN cells THEN cells[i] ELSE Pad(r, C)[i]]
      BY <2>1, <2>2 DEF Over
    <3>2. ASSUME NEW i \in 1 .. C
          PROVE  (IF i \in DOMAIN cells THEN cells[i] ELSE Pad(r, C)[i]) = IF i <= Len(cells) THEN cells[i] ELSE NoObject
      <4>1. Pad(r, C)[i] = IF i <= n THEN r[i] ELSE NoObject
        BY <2>1, <2>2, PadFacts
      <4>. QED
        BY <2>5, <4>1
    <3>. QED
      BY <3>1, <3>2 DEF Pad
  <2>7. m2 = Put(m, x, cells)
    BY <1>3, <2>2 DEF MoveOut
  <2> HIDE DEF cells
  <2>8. Shape(m2) /\ m2.alive = m.alive
    BY <2>7, PutShape
  <2>9. m2.obj[x] = WithSize(Put(m, x, cells).obj[x], n)
    BY <2>1, <2>7, SizeStays
  <2>10. Len(cells) <= Capacity(m, x) /\ Over(m, x, cells) = Pad(cells, Capacity(m, x))
    BY <2>1, <2>2, <2>5, <2>6
  <2>11. /\ m2.heap = Put(m, x, cells).heap /\ m2.obj[x] = WithSize(Put(m, x, cells).obj[x], Len(cells))
         /\ \A z \in All \ {x} : m2.obj[z] = Put(m, x, cells).obj[z]
    BY <2>5, <2>7, <2>9
  <2>12. Keeps(m2, With(v, x, cells)) /\ \A z \in All \ {x} : m2.obj[z] = m.obj[z]
    BY <2>5, <2>8, <2>10, <2>11, Overwrite
  <2>. QED
    BY <2>1, <2>3, <2>5, <2>8, <2>12 DEF Others
<1>. QED
  BY <1>2, <1>3, ConstantFacts

Relocated(m, v, x, y, m2) ==
    /\ Keeps(m2, With(With(v, x, v[y]), y, <<>>)) /\ m2.alive = m.alive /\ Others(m, m2, {x, y})
    /\ m2.obj[y] = Empty

\* Relocation: the cells of y become those of x, no object is constructed or destroyed.
LEMMA RelocateFacts ==
  ASSUME SequenceConstants, NEW m, NEW v, Keeps(m, v), NEW x \in All, NEW y \in All, x # y, m.obj[x] = Empty,
         NEW m2, m2 = RelocateN(m, x, y)
  PROVE  Relocated(m, v, x, y, m2)
<1>1. PICK k \in Nat, q \in Seq(Elem) : k = Len(q) /\ q = v[y] /\ Size(m, y) = k /\ Elements(m, y) = q
  BY ObjectFacts
<1>2. PICK I : I = InitializeCapacity(m, x, k)
  OBVIOUS
<1>3. Keeps(I, v) /\ I.alive = m.alive /\ Others(m, I, {x}) /\ Capacity(I, x) >= k
  BY <1>2, InitializeCapacityFacts
<1>4. PICK r \in Seq(Elem) : r = v[x] /\ r = <<>>
  BY EmptyHolds, EmptyFacts
<1>5. Shape(I) /\ Holds(I, x, r)
  BY <1>3, <1>4 DEF Keeps
<1>6. PICK S : S = SetSize(I, x, k)
  OBVIOUS
<1>7. /\ Shape(S) /\ S.heap = I.heap /\ S.alive = I.alive
      /\ S.obj[x] = WithSize(I.obj[x], k) /\ \A z \in All \ {x} : S.obj[z] = I.obj[z]
  <2>1. PICK o : o = WithSize(I.obj[x], k)
    OBVIOUS
  <2>2. S = [I EXCEPT !.obj = [I.obj EXCEPT ![x] = o]]
    BY <1>6, <2>1 DEF SetSize, WithSize
  <2>3. S = [heap |-> I.heap, obj |-> [I.obj EXCEPT ![x] = o], alive |-> I.alive]
    BY <1>5, <2>2 DEF Shape
  <2>. QED
    BY <1>5, <2>1, <2>3 DEF Shape
<1>8. PICK R : R = Put(S, x, q)
  OBVIOUS
<1>9. m2 = ClearWithoutDestruction(R, y)
  BY <1>1, <1>2, <1>6, <1>8 DEF RelocateN
<1>10. PICK over : over = Over(I, x, q)
  OBVIOUS
\* The size is set before the cells, which does not matter to them.
<1>11. /\ Shape(R) /\ R.alive = m.alive /\ R.heap = Put(I, x, q).heap
       /\ R.obj[x] = WithSize(Put(I, x, q).obj[x], k)
       /\ \A z \in All \ {x} : R.obj[z] = Put(I, x, q).obj[z]
  <2>1. CASE IsInside(I, x, r)
    <3>1. I.obj[x] = Short(Len(r), Pad(r, ShortCapacity)) /\ I.obj[x].buf = Null /\ I.obj[x].flag = 0
      BY <2>1, InsideFacts DEF IsInside, Inside
    <3>2. PICK pad : I.obj[x] = Short(Len(r), pad) /\ pad = Pad(r, ShortCapacity)
      BY <3>1
    <3>3. S.obj[x] = Short(k, pad)
      BY <1>7, <3>2 DEF WithSize, Short
    <3>4. S.obj[x].buf = Null /\ S.obj[x].flag = 0 /\ S.obj[x].short = pad /\ I.obj[x].short = pad
      BY <3>2, <3>3 DEF Short
    <3>5. /\ IsSmall(S, x) <=> ShortCapacity > 0
          /\ Cells(S, x) = Cells(I, x) /\ Over(S, x, q) = over
      BY <1>10, <3>1, <3>4 DEF IsSmall, Cells, Over, Capacity
    <3>6. /\ Put(I, x, q).heap = I.heap /\ Put(I, x, q).obj[x] = Short(Len(r), over)
          /\ \A z \in All \ {x} : Put(I, x, q).obj[z] = I.obj[z]
      <4>1. IsInside(I, x, v[x])
        BY <1>4, <2>1
      <4>2. /\ Put(I, x, q).heap = I.heap /\ Put(I, x, q).obj[x] = Short(Len(v[x]), Over(I, x, q))
            /\ \A z \in All \ {x} : Put(I, x, q).obj[z] = I.obj[z]
        BY <1>3, <4>1, PutInside
      <4>. QED
        BY <1>4, <1>10, <4>2
    <3>7. WithSize(Put(I, x, q).obj[x], k) = Short(k, over)
      BY <3>6 DEF WithSize, Short
    <3>8. CASE ShortCapacity > 0
      <4>1. R = [S EXCEPT !.obj[x].short = over]
        BY <1>8, <3>5, <3>8 DEF Put, Over
      <4>2. PICK o : o = Short(k, over)
        OBVIOUS
      <4>3. [S.obj[x] EXCEPT !.short = over] = o
        BY <3>3, <4>2 DEF Short
      <4>4. R = [S EXCEPT !.obj = [S.obj EXCEPT ![x] = o]]
        BY <4>1, <4>3
      <4>5. R = [heap |-> S.heap, obj |-> [S.obj EXCEPT ![x] = o], alive |-> S.alive]
        BY <1>7, <4>4 DEF Shape
      <4>6. /\ Shape(R) /\ R.alive = S.alive /\ R.heap = S.heap /\ R.obj[x] = o
            /\ \A z \in All \ {x} : R.obj[z] = S.obj[z]
        BY <1>7, <4>5 DEF Shape
      <4>. QED
        BY <1>3, <1>7, <3>6, <3>7, <4>2, <4>6
    <3>9. CASE ~ (ShortCapacity > 0)
      <4>1. R = S
        BY <1>8, <3>4, <3>5, <3>9 DEF Put
      <4>2. ShortCapacity = 0 /\ Capacity(I, x) = ShortCapacity
        BY <2>1, <3>9, InsideFacts, ConstantFacts
      <4>3. over = <<>> /\ pad = <<>>
        BY <1>10, <3>2, <4>2 DEF Over, Pad
      <4>. QED
        BY <1>3, <1>7, <3>3, <3>6, <3>7, <4>1, <4>3
    <3>. QED
      BY <3>8, <3>9
  <2>2. ASSUME NEW b \in Buffer, NEW c \in Nat, IsOutside(I, x, r, b, c)
        PROVE  /\ Shape(R) /\ R.alive = m.alive /\ R.heap = Put(I, x, q).heap
               /\ R.obj[x] = WithSize(Put(I, x, q).obj[x], k)
               /\ \A z \in All \ {x} : R.obj[z] = Put(I, x, q).obj[z]
    <3>1. I.obj[x] = Long(b, Len(r))
      BY <2>2 DEF IsOutside
    <3>2. S.obj[x] = Long(b, k)
      BY <1>7, <3>1 DEF WithSize, Long
    <3>3. S.obj[x].buf = b /\ S.obj[x].flag = 1 /\ I.obj[x].buf = b /\ I.obj[x].flag = 1 /\ b # Null
      BY <3>1, <3>2, ConstantFacts DEF Long
    <3>4. ~IsSmall(S, x) /\ ~IsSmall(I, x) /\ Cells(S, x) = Cells(I, x) /\ Over(S, x, q) = over
      BY <1>7, <1>10, <3>3 DEF IsSmall, Cells, Over, Capacity
    <3>5. R = [S EXCEPT !.heap[b] = Allocated(over)]
      BY <1>8, <3>3, <3>4 DEF Put, Over
    <3>6. Put(I, x, q) = [I EXCEPT !.heap[b] = Allocated(over)]
      BY <1>10, <3>3, <3>4 DEF Put, Over
    <3>7. R = [heap |-> [S.heap EXCEPT ![b] = Allocated(over)], obj |-> S.obj, alive |-> S.alive]
      BY <1>7, <3>5 DEF Shape
    <3>8. Put(I, x, q) = [heap |-> [I.heap EXCEPT ![b] = Allocated(over)], obj |-> I.obj, alive |-> I.alive]
      BY <1>5, <3>6 DEF Shape
    <3>9. R.heap = Put(I, x, q).heap /\ R.obj = S.obj /\ Put(I, x, q).obj = I.obj /\ R.alive = m.alive
      BY <1>3, <1>7, <3>7, <3>8
    <3>10. Shape(R)
      BY <1>7, <3>7 DEF Shape
    <3>. QED
      BY <1>7, <3>9, <3>10
  <2>. QED
    BY <1>5, <2>1, <2>2 DEF Holds
<1>12. Over(I, x, q) = Pad(q, Capacity(I, x)) /\ Len(q) <= Capacity(I, x)
  <2>1. PICK C \in Nat : C = Capacity(I, x)
    BY <1>3, ObjectFacts
  <2>6. Cells(I, x) = Pad(v[x], Capacity(I, x))
    BY <1>3, ObjectFacts
  <2>7. Len(q) <= C /\ Cells(I, x) = Pad(r, C)
    BY <1>1, <1>3, <1>4, <2>1, <2>6
  <2>2. Cells(I, x) = Pad(r, C) /\ Len(q) <= C /\ DOMAIN q = 1 .. k
    BY <1>1, <2>7
  <2>3. Pad(r, C) = [i \in 1 .. C |-> NoObject]
    BY <1>4, <2>1, NoCells
  <2>4. Over(I, x, q) = [i \in 1 .. C |-> IF i \in DOMAIN q THEN q[i] ELSE Pad(r, C)[i]]
    BY <2>1, <2>2 DEF Over
  <2>5. ASSUME NEW i \in 1 .. C
        PROVE  (IF i \in DOMAIN q THEN q[i] ELSE Pad(r, C)[i]) = IF i <= Len(q) THEN q[i] ELSE NoObject
    BY <1>1, <2>2, <2>3
  <2>. QED
    BY <2>1, <2>2, <2>4, <2>5 DEF Pad
<1>13. Keeps(R, With(v, x, q)) /\ \A z \in All \ {x} : R.obj[z] = I.obj[z]
  <2>1. R.obj[x] = WithSize(Put(I, x, q).obj[x], Len(q))
    BY <1>1, <1>11
  <2>. QED
    BY <1>3, <1>11, <1>12, <2>1, Overwrite
<1>14. PICK w : w = With(v, x, q)
  OBVIOUS
<1>15. /\ Keeps(m2, With(w, y, <<>>)) /\ m2.alive = R.alive /\ Others(R, m2, {y}) /\ m2.obj[y] = Empty
  <2>1. Keeps(R, w) /\ Shape(R) /\ Others(R, R, {y})
    BY <1>11, <1>13, <1>14 DEF Others
  <2>2. Emptied(R, w, y, R.alive, m2)
    BY <1>9, <2>1, ReleaseFacts
  <2>. QED
    BY <2>2 DEF Emptied
<1>16. Others(m, m2, {x, y})
  BY <1>3, <1>13, <1>15 DEF Others
<1>. QED
  BY <1>1, <1>11, <1>14, <1>15, <1>16 DEF Relocated

-----------------------------------------------------------------------------
(* The objects that are alive are the elements. *)

Elements_(v, x) == {x} \X (1 .. Len(v[x]))
Slots(v, X) == UNION {Elements_(v, x) : x \in X}
Total(v) == Cardinality(Slots(v, All))
Sound(m, v) == Keeps(m, v) /\ m.alive = Total(v)

\* A sequence has as many elements as its length.
LEMMA RowFacts ==
  ASSUME NEW v \in [All -> Seq(Elem)], NEW x \in All
  PROVE  IsFiniteSet(Elements_(v, x)) /\ Cardinality(Elements_(v, x)) = Len(v[x])
<1>1. PICK n \in Nat : n = Len(v[x])
  OBVIOUS
<1>2. IsFiniteSet(1 .. n) /\ Cardinality(1 .. n) = n
  BY FS_Interval
<1>3. IsFiniteSet({x}) /\ Cardinality({x}) = 1
  BY FS_Singleton
<1>4. PICK S, T : S = {x} /\ T = 1 .. n
  OBVIOUS
<1>5. IsFiniteSet(S \X T) /\ Cardinality(S \X T) = Cardinality(S) * Cardinality(T)
  BY <1>2, <1>3, <1>4, FS_Product
<1>6. Cardinality(S) * Cardinality(T) = n
  BY <1>2, <1>3, <1>4
<1>. QED
  BY <1>1, <1>4, <1>5, <1>6 DEF Elements_

\* The elements of all sequences are finitely many.
LEMMA SlotsFinite ==
  ASSUME SequenceConstants, NEW v \in [All -> Seq(Elem)], NEW X \in SUBSET All
  PROVE  IsFiniteSet(Slots(v, X))
<1> DEFINE f == [x \in X |-> Elements_(v, x)]
           T == {Elements_(v, x) : x \in X}
<1>1. IsFiniteSet(X)
  BY ConstantFacts, FS_Subset
<1>2. f \in Surjection(X, T)
  BY DEF Surjection
<1>3. IsFiniteSet(T)
  <2> HIDE DEF f, T
  <2>. QED
    BY <1>1, <1>2, FS_Surjection
<1>4. \A S \in T : IsFiniteSet(S)
  BY RowFacts
<1>5. IsFiniteSet(UNION T)
  <2> HIDE DEF T
  <2>. QED
    BY <1>3, <1>4, FS_UNION
<1>. QED
  BY <1>5 DEF Slots

\* ... those of x and those of the others.
LEMMA SplitTotal ==
  ASSUME SequenceConstants, NEW v \in [All -> Seq(Elem)], NEW x \in All
  PROVE  /\ Cardinality(Slots(v, All \ {x})) \in Nat
         /\ Total(v) = Cardinality(Slots(v, All \ {x})) + Len(v[x])
<1> DEFINE A == Slots(v, All \ {x})
           B == Elements_(v, x)
<1>1. IsFiniteSet(A) /\ IsFiniteSet(B) /\ Cardinality(B) = Len(v[x])
  BY SlotsFinite, RowFacts
<1>2. Slots(v, All) = A \cup B
  BY DEF Slots
<1>3. A \cap B = {}
  BY DEF Slots, Elements_
<1>4. Cardinality({}) = 0 /\ Cardinality(A) \in Nat
  BY <1>1, FS_EmptySet, FS_CardinalityType
<1> HIDE DEF A, B
<1>5. Cardinality(A \cup B) = Cardinality(A) + Cardinality(B) - Cardinality(A \cap B)
  BY <1>1, FS_Union
<1>6. Cardinality(A \cup B) = Cardinality(A) + Len(v[x])
  <2>1. PICK k \in Nat, n \in Nat : k = Cardinality(A) /\ n = Len(v[x])
    BY <1>4
  <2>2. Cardinality(A \cup B) = k + n - 0
    BY <1>1, <1>3, <1>4, <1>5, <2>1
  <2>. QED
    BY <2>1, <2>2
<1>. QED
  BY <1>2, <1>4, <1>6 DEF Total, A

\* Their number changes by what x gains or loses.
LEMMA TotalChange ==
  ASSUME SequenceConstants, NEW v \in [All -> Seq(Elem)], NEW x \in All, NEW q \in Seq(Elem)
  PROVE  Total(v) \in Int /\ Total(With(v, x, q)) = Total(v) - Len(v[x]) + Len(q)
<1>0. /\ With(v, x, q) \in [All -> Seq(Elem)] /\ With(v, x, q)[x] = q
      /\ \A z \in All \ {x} : With(v, x, q)[z] = v[z]
  BY WithFacts
<1>1. PICK w : w = With(v, x, q) /\ w \in [All -> Seq(Elem)] /\ w[x] = q /\ \A z \in All \ {x} : w[z] = v[z]
  BY <1>0
<1>2. Slots(w, All \ {x}) = Slots(v, All \ {x})
  BY <1>1 DEF Slots, Elements_
<1>3. PICK k \in Nat : k = Cardinality(Slots(v, All \ {x})) /\ Total(v) = k + Len(v[x])
  BY SplitTotal
<1>4. Total(w) = k + Len(w[x])
  BY <1>1, <1>2, <1>3, SplitTotal
<1>5. Len(v[x]) \in Nat /\ Len(q) \in Nat
  OBVIOUS
<1>. QED
  BY <1>1, <1>3, <1>4, <1>5

\* So a step that counts what it constructs and destroys keeps count.
LEMMA SoundChange ==
  ASSUME SequenceConstants, NEW m, NEW v, Sound(m, v), NEW x \in All, NEW q \in Seq(Elem),
         NEW m2, Keeps(m2, With(v, x, q)), m2.alive = m.alive - Len(v[x]) + Len(q)
  PROVE  Sound(m2, With(v, x, q))
<1>1. v \in [All -> Seq(Elem)]
  BY DEF Sound, Keeps
<1>2. Total(With(v, x, q)) = Total(v) - Len(v[x]) + Len(q)
  BY <1>1, TotalChange
<1>. QED
  BY <1>2 DEF Sound

\* What soundness includes.
LEMMA SoundFacts ==
  ASSUME NEW m, NEW v, Sound(m, v)
  PROVE  Keeps(m, v) /\ v \in [All -> Seq(Elem)] /\ Shape(m) /\ m.alive \in Int
BY DEF Sound, Keeps, Shape

\* What each step does to one object, and that no element is lost.
Turns(m, v, x, q, m2) == q \in Seq(Elem) /\ Sound(m2, With(v, x, q)) /\ Others(m, m2, {x})

\* The steps on one object: initialize,
LEMMA SoundInitialize ==
  ASSUME SequenceConstants, NEW m, NEW v, Sound(m, v), NEW x \in All, m.obj[x] = Empty, NEW q \in Seq(Elem),
         NEW m2, m2 = Initialize(m, x, q)
  PROVE  Turns(m, v, x, q, m2)
<1>0. Keeps(m, v)
  BY SoundFacts
<1>1. Keeps(m, v) /\ v[x] = <<>>
  BY <1>0, EmptyHolds
<1>2. Keeps(m2, With(v, x, q)) /\ m2.alive = m.alive + Len(q) /\ Others(m, m2, {x})
  BY <1>0, InitializeFacts
<1>3. m2.alive = m.alive - Len(v[x]) + Len(q)
  <2>1. m.alive \in Int /\ Len(v[x]) = 0
    BY <1>1, SoundFacts
  <2>. QED
    BY <1>2, <2>1
<1>4. Sound(m2, With(v, x, q))
  BY <1>2, <1>3, SoundChange
<1>. QED
  BY <1>2, <1>4 DEF Turns

\* append,
LEMMA SoundAppend ==
  ASSUME SequenceConstants, NEW m, NEW v, Sound(m, v), NEW x \in All, NEW q \in Seq(Elem),
         NEW m2, m2 = Append_(m, x, q)
  PROVE  Turns(m, v, x, v[x] \o q, m2)
<1>1. Keeps(m, v) /\ m.alive \in Int
  BY SoundFacts
<1>2. PICK r \in Seq(Elem) : r = v[x]
  BY SoundFacts
<1>3. Keeps(m2, With(v, x, r \o q)) /\ m2.alive = m.alive + Len(q) /\ Others(m, m2, {x})
  BY <1>1, <1>2, AppendFacts
<1>4. r \o q \in Seq(Elem) /\ Len(r \o q) = Len(r) + Len(q)
  OBVIOUS
<1>5. m2.alive = m.alive - Len(v[x]) + Len(r \o q)
  <2>1. Len(r) \in Nat /\ Len(q) \in Nat
    OBVIOUS
  <2>. QED
    BY <1>1, <1>2, <1>3, <1>4, <2>1
<1>6. Sound(m2, With(v, x, r \o q))
  BY <1>3, <1>4, <1>5, SoundChange
<1>. QED
  BY <1>2, <1>3, <1>4, <1>6 DEF Turns

\* construct past the end,
LEMMA SoundConstruct ==
  ASSUME SequenceConstants, NEW m, NEW v, Sound(m, v), NEW x \in All, NEW q \in Seq(Elem),
         NEW m2, Constructed(m, v, x, q, m2)
  PROVE  Turns(m, v, x, v[x] \o q, m2)
<1>1. Keeps(m, v) /\ m.alive \in Int
  BY SoundFacts
<1>2. PICK r \in Seq(Elem) : r = v[x]
  BY SoundFacts
<1>3. Keeps(m2, With(v, x, r \o q)) /\ m2.alive = m.alive + Len(q) /\ Others(m, m2, {x})
  <2>1. Keeps(m2, With(v, x, v[x] \o q)) /\ m2.alive = m.alive + Len(q) /\ Others(m, m2, {x})
    BY <1>1, ConstructFacts
  <2>. QED
    BY <1>2, <2>1
<1>4. r \o q \in Seq(Elem) /\ Len(r \o q) = Len(r) + Len(q)
  OBVIOUS
<1>5. m2.alive = m.alive - Len(v[x]) + Len(r \o q)
  <2>1. Len(r) \in Nat /\ Len(q) \in Nat
    OBVIOUS
  <2>. QED
    BY <1>1, <1>2, <1>3, <1>4, <2>1
<1>6. Sound(m2, With(v, x, r \o q))
  BY <1>3, <1>4, <1>5, SoundChange
<1>. QED
  BY <1>2, <1>3, <1>4, <1>6 DEF Turns

\* destroy the end,
LEMMA SoundTruncate ==
  ASSUME SequenceConstants, NEW m, NEW v, Sound(m, v), NEW x \in All, NEW p \in Nat,
         NEW m2, Truncated(m, v, x, p, m2)
  PROVE  Turns(m, v, x, SubSeq(v[x], 1, p), m2)
<1>1. Keeps(m, v) /\ m.alive \in Int
  BY SoundFacts
<1>2. PICK r \in Seq(Elem) : r = v[x]
  BY SoundFacts
<1>3. Keeps(m2, With(v, x, SubSeq(r, 1, p))) /\ m2.alive = m.alive - (Len(r) - p) /\ Others(m, m2, {x})
  <2>1. Keeps(m2, With(v, x, SubSeq(v[x], 1, p))) /\ m2.alive = m.alive - (Len(v[x]) - p) /\ Others(m, m2, {x})
    BY <1>1, DestroyFacts
  <2>. QED
    BY <1>2, <2>1
<1>4. SubSeq(r, 1, p) \in Seq(Elem) /\ Len(SubSeq(r, 1, p)) = p
  BY <1>2 DEF Truncated
<1>5. m2.alive = m.alive - Len(v[x]) + Len(SubSeq(r, 1, p))
  BY <1>1, <1>2, <1>3, <1>4
<1>6. Sound(m2, With(v, x, SubSeq(r, 1, p)))
  BY <1>3, <1>4, <1>5, SoundChange
<1>. QED
  BY <1>2, <1>3, <1>4, <1>6 DEF Turns

\* clear,
LEMMA SoundClear ==
  ASSUME SequenceConstants, NEW m, NEW v, Sound(m, v), NEW x \in All,
         NEW m2, m2 = ClearStorage(m, x)
  PROVE  Turns(m, v, x, <<>>, m2) /\ m2.obj[x] = Empty
<1>1. Keeps(m, v) /\ m.alive \in Int
  BY SoundFacts
<1>2. PICK n \in Nat : n = Len(v[x])
  BY <1>1, ObjectFacts
<1>3. Keeps(m2, With(v, x, <<>>)) /\ m2.alive = m.alive - n /\ Others(m, m2, {x}) /\ m2.obj[x] = Empty
  <2>1. Emptied(m, v, x, m.alive - Len(v[x]), m2)
    BY <1>1, ClearFacts
  <2>. QED
    BY <1>2, <2>1 DEF Emptied
<1>4. PICK e \in Seq(Elem) : e = <<>> /\ Len(e) = 0
  BY EmptyFacts
<1>5. m2.alive = m.alive - Len(v[x]) + Len(e)
  BY <1>1, <1>2, <1>3, <1>4
<1>6. Sound(m2, With(v, x, e))
  BY <1>3, <1>4, <1>5, SoundChange
<1>. QED
  BY <1>3, <1>4, <1>6 DEF Turns

\* make room,
LEMMA SoundEnsure ==
  ASSUME SequenceConstants, NEW m, NEW v, Sound(m, v), NEW x \in All, NEW desired \in Nat,
         NEW m2, m2 = EnsureCapacity(m, x, desired)
  PROVE  Sound(m2, v) /\ Others(m, m2, {x}) /\ Capacity(m2, x) >= desired
<1>1. Keeps(m2, v) /\ m2.alive = m.alive /\ Others(m, m2, {x}) /\ Capacity(m2, x) >= desired
  BY SoundFacts, EnsureCapacityFacts
<1>. QED
  BY <1>1 DEF Sound

\* be moved from,
LEMMA SoundMoveOut ==
  ASSUME SequenceConstants, NEW m, NEW v, Sound(m, v), NEW x \in All,
         NEW m2, m2 = MoveOut(m, x)
  PROVE  Turns(m, v, x, Left(v[x]), m2)
<1>1. Keeps(m, v) /\ m.alive \in Int
  BY SoundFacts
<1>2. /\ Keeps(m2, With(v, x, Left(v[x]))) /\ m2.alive = m.alive /\ Others(m, m2, {x})
      /\ Left(v[x]) \in Seq(Elem) /\ Len(Left(v[x])) = Len(v[x])
  BY <1>1, MoveOutFacts
<1>3. PICK q \in Seq(Elem) : q = Left(v[x])
  BY <1>2
<1>4. m2.alive = m.alive - Len(v[x]) + Len(q)
  <2>1. Len(q) \in Nat
    OBVIOUS
  <2>. QED
    BY <1>1, <1>2, <1>3, <2>1
<1>5. Sound(m2, With(v, x, q))
  BY <1>2, <1>3, <1>4, SoundChange
<1>. QED
  BY <1>2, <1>3, <1>5 DEF Turns

\* copy another.
LEMMA SoundCopy ==
  ASSUME SequenceConstants, NEW m, NEW v, Sound(m, v), NEW x \in All, NEW y \in All, x # y, m.obj[x] = Empty,
         NEW m2, m2 = Copy(m, x, y)
  PROVE  Turns(m, v, x, v[y], m2)
<1>0. Keeps(m, v) /\ m.alive \in Int
  BY SoundFacts
<1>1. Keeps(m, v) /\ m.alive \in Int /\ v[x] = <<>>
  BY <1>0, EmptyHolds
<1>2. PICK q \in Seq(Elem) : q = v[y]
  BY SoundFacts
<1>3. Keeps(m2, With(v, x, q)) /\ m2.alive = m.alive + Len(q) /\ Others(m, m2, {x})
  <2>1. Keeps(m2, With(v, x, v[y])) /\ m2.alive = m.alive + Len(v[y]) /\ Others(m, m2, {x})
    BY <1>0, CopyFacts
  <2>. QED
    BY <1>2, <2>1
<1>4. m2.alive = m.alive - Len(v[x]) + Len(q)
  <2>1. Len(v[x]) = 0
    BY <1>1
  <2>. QED
    BY <1>1, <1>3, <2>1
<1>5. Sound(m2, With(v, x, q))
  BY <1>3, <1>4, SoundChange
<1>. QED
  BY <1>2, <1>3, <1>5 DEF Turns

\* Two objects hold a and b.
Both(v, x, a, y, b) == With(With(v, x, a), y, b)

BothAre(v, x, a, y, b, w) ==
    /\ w \in [All -> Seq(Elem)] /\ w[x] = a /\ w[y] = b
    /\ \A z \in All \ {x, y} : w[z] = v[z]

\* v with a for x and b for y.
LEMMA BothFacts ==
  ASSUME NEW v \in [All -> Seq(Elem)], NEW x \in All, NEW y \in All, x # y, NEW a \in Seq(Elem), NEW b \in Seq(Elem)
  PROVE  BothAre(v, x, a, y, b, Both(v, x, a, y, b))
<1>1. With(v, x, a) \in [All -> Seq(Elem)]
  BY WithFacts
<1>2. Both(v, x, a, y, b) \in [All -> Seq(Elem)]
  BY <1>1, WithFacts DEF Both
<1>3. Both(v, x, a, y, b) = [z \in All |-> IF z = x THEN a ELSE IF z = y THEN b ELSE v[z]]
  BY DEF Both, With
<1>. QED
  BY <1>2, <1>3 DEF BothAre

\* ... of which one changes again.
LEMMA BothWith ==
  ASSUME NEW v \in [All -> Seq(Elem)], NEW x \in All, NEW y \in All, x # y,
         NEW a \in Seq(Elem), NEW b \in Seq(Elem), NEW q \in Seq(Elem), NEW w, w = Both(v, x, a, y, b)
  PROVE  /\ With(w, x, q) = Both(v, x, q, y, b)
         /\ With(w, y, q) = Both(v, x, a, y, q)
<1>1. w = [z \in All |-> IF z = x THEN a ELSE IF z = y THEN b ELSE v[z]]
  BY DEF Both, With
<1>2. Both(v, x, q, y, b) = [z \in All |-> IF z = x THEN q ELSE IF z = y THEN b ELSE v[z]]
  BY DEF Both, With
<1>3. Both(v, x, a, y, q) = [z \in All |-> IF z = x THEN a ELSE IF z = y THEN q ELSE v[z]]
  BY DEF Both, With
<1>4. With(w, x, q) = Both(v, x, q, y, b)
  BY <1>1, <1>2 DEF With
<1>5. With(w, y, q) = Both(v, x, a, y, q)
  BY <1>1, <1>3 DEF With
<1>. QED
  BY <1>4, <1>5

\* The number of elements when two sequences change.
LEMMA TotalBoth ==
  ASSUME SequenceConstants, NEW v \in [All -> Seq(Elem)], NEW x \in All, NEW y \in All, x # y,
         NEW a \in Seq(Elem), NEW b \in Seq(Elem)
  PROVE  /\ Total(v) \in Int
         /\ Total(Both(v, x, a, y, b)) = Total(v) - Len(v[x]) - Len(v[y]) + Len(a) + Len(b)
<1>1. PICK w \in [All -> Seq(Elem)] : w = With(v, x, a) /\ w[y] = v[y]
  BY WithFacts
<1>2. Total(w) = Total(v) - Len(v[x]) + Len(a) /\ Total(v) \in Int
  BY <1>1, TotalChange
<1>3. Total(With(w, y, b)) = Total(w) - Len(v[y]) + Len(b)
  <2>1. Total(With(w, y, b)) = Total(w) - Len(w[y]) + Len(b)
    BY TotalChange
  <2>. QED
    BY <1>1, <2>1
<1>4. Len(v[x]) \in Nat /\ Len(v[y]) \in Nat /\ Len(a) \in Nat /\ Len(b) \in Nat
  OBVIOUS
<1>. QED
  BY <1>1, <1>2, <1>3, <1>4 DEF Both

Exchanged(m, v, x, y, m2) ==
    /\ Sound(m2, Both(v, x, v[y], y, v[x])) /\ Others(m, m2, {x, y})
    /\ m2.obj[x] = m.obj[y] /\ m2.obj[y] = m.obj[x]

\* The steps on two objects: swap,
LEMMA SoundSwap ==
  ASSUME SequenceConstants, NEW m, NEW v, Sound(m, v), NEW x \in All, NEW y \in All, x # y,
         NEW m2, m2 = Swap(m, x, y)
  PROVE  Exchanged(m, v, x, y, m2)
<1>1. Keeps(m, v) /\ m.alive = Total(v) /\ v \in [All -> Seq(Elem)]
  BY DEF Sound, Keeps
<1>2. /\ Keeps(m2, Both(v, x, v[y], y, v[x])) /\ m2.alive = m.alive /\ Others(m, m2, {x, y})
      /\ m2.obj[x] = m.obj[y] /\ m2.obj[y] = m.obj[x]
  <2>1. Swapped(m, v, x, y, m2)
    BY <1>1, SwapFacts
  <2>. QED
    BY <2>1 DEF Swapped, Both
<1>3. PICK a \in Seq(Elem), b \in Seq(Elem) : a = v[x] /\ b = v[y]
  BY <1>1
<1>4. Total(Both(v, x, b, y, a)) = Total(v) - Len(v[x]) - Len(v[y]) + Len(b) + Len(a) /\ Total(v) \in Int
  BY <1>1, TotalBoth
<1>5. Len(a) \in Nat /\ Len(b) \in Nat
  OBVIOUS
<1>. QED
  BY <1>1, <1>2, <1>3, <1>4, <1>5 DEF Sound, Exchanged

\* move from,
LEMMA SoundMoveFrom ==
  ASSUME SequenceConstants, NEW m, NEW v, Sound(m, v), NEW x \in All, NEW y \in All, x # y, m.obj[x] = Empty,
         NEW m2, m2 = MoveFrom(m, x, y)
  PROVE  /\ Sound(m2, Both(v, x, v[y], y, <<>>)) /\ Others(m, m2, {x, y})
         /\ m2.obj[x] = m.obj[y] /\ m2.obj[y] = Empty
<1>1. m2 = Swap(m, x, y)
  BY DEF MoveFrom, Swap
<1>2. Keeps(m, v)
  BY SoundFacts
<1>3. v[x] = <<>>
  BY <1>2, EmptyHolds
<1>4. /\ Sound(m2, Both(v, x, v[y], y, v[x])) /\ Others(m, m2, {x, y})
      /\ m2.obj[x] = m.obj[y] /\ m2.obj[y] = m.obj[x]
  <2>1. Exchanged(m, v, x, y, m2)
    BY <1>1, SoundSwap
  <2>. QED
    BY <2>1 DEF Exchanged
<1>. QED
  BY <1>3, <1>4

\* relocate,
LEMMA SoundRelocate ==
  ASSUME SequenceConstants, NEW m, NEW v, Sound(m, v), NEW x \in All, NEW y \in All, x # y, m.obj[x] = Empty,
         NEW m2, m2 = RelocateN(m, x, y)
  PROVE  Sound(m2, Both(v, x, v[y], y, <<>>)) /\ Others(m, m2, {x, y}) /\ m2.obj[y] = Empty
<1>1. Keeps(m, v) /\ m.alive = Total(v) /\ v \in [All -> Seq(Elem)]
  BY DEF Sound, Keeps
<1>2. v[x] = <<>>
  BY <1>1, EmptyHolds
<1>3. /\ Keeps(m2, Both(v, x, v[y], y, <<>>)) /\ m2.alive = m.alive /\ Others(m, m2, {x, y})
      /\ m2.obj[y] = Empty
  <2>1. /\ Keeps(m2, With(With(v, x, v[y]), y, <<>>)) /\ m2.alive = m.alive /\ Others(m, m2, {x, y})
        /\ m2.obj[y] = Empty
    <3>1. Relocated(m, v, x, y, m2)
      BY <1>1, RelocateFacts
    <3>. QED
      BY <3>1 DEF Relocated
  <2>. QED
    BY <2>1 DEF Both
<1>4. PICK e \in Seq(Elem), b \in Seq(Elem) : e = <<>> /\ b = v[y] /\ Len(e) = 0
  <2>1. <<>> \in Seq(Elem) /\ Len(<<>>) = 0
    BY EmptyFacts
  <2>2. v[y] \in Seq(Elem)
    BY <1>1
  <2>. QED
    BY <2>1, <2>2
<1>5. Total(Both(v, x, b, y, e)) = Total(v) - Len(v[x]) - Len(v[y]) + Len(b) + Len(e) /\ Total(v) \in Int
  BY <1>1, TotalBoth
<1>6. Len(b) \in Nat /\ v[x] = e
  BY <1>2, <1>4
<1>7. Total(Both(v, x, b, y, e)) = Total(v)
  BY <1>4, <1>5, <1>6
<1>. QED
  BY <1>1, <1>3, <1>4, <1>7 DEF Sound

\* operator= puts the sequence of the temporary in the place of that of x.
Assigned(m, v, x, m2) ==
    Sound(m2, Both(v, x, v["other"], "other", <<>>)) /\ Others(m, m2, {x, "other"}) /\ m2.obj["other"] = Empty

\* and assignment by way of a temporary.
LEMMA SoundAssign ==
  ASSUME SequenceConstants, NEW m, NEW v, Sound(m, v), NEW x \in All, x # "other",
         NEW m2, m2 = Assign(m, x)
  PROVE  Assigned(m, v, x, m2)
<1>1. PICK y : y = "other" /\ y \in All /\ x # y
  BY DEF All, Temporary
<1>2. PICK S : S = Swap(m, x, y)
  OBVIOUS
<1>3. v \in [All -> Seq(Elem)]
  BY SoundFacts
<1>4. PICK a \in Seq(Elem), b \in Seq(Elem) : a = v[x] /\ b = v[y]
  BY <1>1, <1>3
<1>5. Sound(S, Both(v, x, v[y], y, v[x])) /\ Others(m, S, {x, y})
  <2>1. Exchanged(m, v, x, y, S)
    BY <1>1, <1>2, SoundSwap
  <2>. QED
    BY <2>1 DEF Exchanged
<1>6. Sound(S, Both(v, x, b, y, a))
  BY <1>4, <1>5
<1>7. PICK w : w = Both(v, x, b, y, a)
  OBVIOUS
<1>8. m2 = ClearStorage(S, y)
  BY <1>1, <1>2 DEF Assign
<1>9. Turns(S, w, y, <<>>, m2) /\ m2.obj[y] = Empty
  BY <1>1, <1>6, <1>7, <1>8, SoundClear
<1>10. With(w, y, <<>>) = Both(v, x, b, y, <<>>)
  <2>1. PICK e \in Seq(Elem) : e = <<>>
    BY EmptyFacts
  <2>2. With(w, y, e) = Both(v, x, b, y, e)
    BY <1>1, <1>3, <1>4, <1>7, BothWith
  <2>. QED
    BY <2>1, <2>2
<1>11. Sound(m2, Both(v, x, b, y, <<>>)) /\ Others(S, m2, {y})
  BY <1>9, <1>10 DEF Turns
<1>12. Others(m, m2, {x, y})
  BY <1>5, <1>11 DEF Others
<1>. QED
  BY <1>1, <1>4, <1>9, <1>11, <1>12 DEF Assigned

\* In the course of an operation on x: it holds a, and the temporary b.
InHand(m0, v, x, a, b, m) ==
    /\ a \in Seq(Elem) /\ b \in Seq(Elem)
    /\ Sound(m, Both(v, x, a, "tail", b))
    /\ Others(m0, m, {x, "tail"})

\* And after it.
Done(m0, v, x, q, m) ==
    /\ q \in Seq(Elem) /\ Sound(m, With(v, x, q))
    /\ Others(m0, m, {x, "tail"}) /\ m.obj["tail"] = Empty

\* In the middle of an operation: x holds a and the temporary b.
LEMMA HandFacts ==
  ASSUME SequenceConstants, NEW v \in [All -> Seq(Elem)], NEW x \in All, x # "tail",
         NEW m0, NEW a, NEW b, NEW m, InHand(m0, v, x, a, b, m)
  PROVE  /\ a \in Seq(Elem) /\ b \in Seq(Elem) /\ "tail" \in All
         /\ Sound(m, Both(v, x, a, "tail", b))
         /\ Both(v, x, a, "tail", b)[x] = a /\ Both(v, x, a, "tail", b)["tail"] = b
         /\ Size(m, x) = Len(a) /\ Elements(m, x) = a /\ Size(m, "tail") = Len(b) /\ Elements(m, "tail") = b
         /\ \A q \in Seq(Elem) : /\ With(Both(v, x, a, "tail", b), x, q) = Both(v, x, q, "tail", b)
                                 /\ With(Both(v, x, a, "tail", b), "tail", q) = Both(v, x, a, "tail", q)
<1>1. PICK t \in All : t = "tail" /\ x # t
  BY DEF All, Temporary
<1>2. a \in Seq(Elem) /\ b \in Seq(Elem) /\ Sound(m, Both(v, x, a, t, b))
  BY <1>1 DEF InHand
<1>3. PICK w : w = Both(v, x, a, t, b)
  OBVIOUS
<1>4. /\ w[x] = a /\ w[t] = b
      /\ \A q \in Seq(Elem) : With(w, x, q) = Both(v, x, q, t, b) /\ With(w, t, q) = Both(v, x, a, t, q)
  <2>1. a \in Seq(Elem) /\ b \in Seq(Elem)
    BY <1>2
  <2>2. Both(v, x, a, t, b)[x] = a /\ Both(v, x, a, t, b)[t] = b
    <3>1. t \in All /\ x # t
      BY <1>1
    <3>2. BothAre(v, x, a, t, b, Both(v, x, a, t, b))
      BY <2>1, <3>1, BothFacts
    <3>. QED
      BY <3>2 DEF BothAre
  <2>3. ASSUME NEW q \in Seq(Elem)
        PROVE  With(w, x, q) = Both(v, x, q, t, b) /\ With(w, t, q) = Both(v, x, a, t, q)
    <3>1. t \in All /\ x # t
      BY <1>1
    <3>. QED
      BY <1>3, <2>1, <3>1, BothWith
  <2>. QED
    BY <1>3, <2>2, <2>3
<1>5. Keeps(m, w)
  BY <1>2, <1>3, SoundFacts
<1>6. /\ Size(m, x) = Len(w[x]) /\ Elements(m, x) = w[x]
      /\ Size(m, t) = Len(w[t]) /\ Elements(m, t) = w[t]
  BY <1>5, ObjectFacts
<1>. QED
  BY <1>1, <1>2, <1>3, <1>4, <1>6

\* A step on x, or on the temporary.
LEMMA HandTurns ==
  ASSUME SequenceConstants, NEW v \in [All -> Seq(Elem)], NEW x \in All, x # "tail",
         NEW m0, NEW a, NEW b, NEW m, InHand(m0, v, x, a, b, m),
         NEW q, NEW m2, Turns(m, Both(v, x, a, "tail", b), x, q, m2)
  PROVE  InHand(m0, v, x, q, b, m2)
<1>1. b \in Seq(Elem) /\ Others(m0, m, {x, "tail"})
  BY DEF InHand
<1>2. q \in Seq(Elem) /\ Sound(m2, With(Both(v, x, a, "tail", b), x, q)) /\ Others(m, m2, {x})
  BY DEF Turns
<1>3. With(Both(v, x, a, "tail", b), x, q) = Both(v, x, q, "tail", b)
  BY <1>2, HandFacts
<1>4. Others(m0, m2, {x, "tail"})
  BY <1>1, <1>2 DEF Others
<1>. QED
  BY <1>1, <1>2, <1>3, <1>4 DEF InHand

LEMMA TailTurns ==
  ASSUME SequenceConstants, NEW v \in [All -> Seq(Elem)], NEW x \in All, x # "tail",
         NEW m0, NEW a, NEW b, NEW m, InHand(m0, v, x, a, b, m),
         NEW q, NEW m2, Turns(m, Both(v, x, a, "tail", b), "tail", q, m2)
  PROVE  InHand(m0, v, x, a, q, m2)
<1>1. a \in Seq(Elem) /\ Others(m0, m, {x, "tail"})
  BY DEF InHand
<1>2. q \in Seq(Elem) /\ Sound(m2, With(Both(v, x, a, "tail", b), "tail", q)) /\ Others(m, m2, {"tail"})
  BY DEF Turns
<1>3. With(Both(v, x, a, "tail", b), "tail", q) = Both(v, x, a, "tail", q)
  BY <1>2, HandFacts
<1>4. Others(m0, m2, {x, "tail"})
  BY <1>1, <1>2 DEF Others
<1>. QED
  BY <1>1, <1>2, <1>3, <1>4 DEF InHand

\* Then x gets more,
LEMMA HandAppend ==
  ASSUME SequenceConstants, NEW v \in [All -> Seq(Elem)], NEW x \in All, x # "tail",
         NEW m0, NEW a, NEW b, NEW m, InHand(m0, v, x, a, b, m),
         NEW q \in Seq(Elem), NEW m2, m2 = Append_(m, x, q)
  PROVE  InHand(m0, v, x, a \o q, b, m2)
<1>1. PICK w : w = Both(v, x, a, "tail", b)
  OBVIOUS
<1>2. Sound(m, w) /\ w[x] = a
  BY <1>1, HandFacts
<1>3. Turns(m, w, x, w[x] \o q, m2)
  BY <1>2, SoundAppend
<1>4. Turns(m, Both(v, x, a, "tail", b), x, a \o q, m2)
  BY <1>1, <1>2, <1>3
<1>. QED
  BY <1>4, HandTurns

\* is cut,
LEMMA HandTruncate ==
  ASSUME SequenceConstants, NEW v \in [All -> Seq(Elem)], NEW x \in All, x # "tail",
         NEW m0, NEW a, NEW b, NEW m, InHand(m0, v, x, a, b, m),
         NEW p \in Nat, p <= Len(a), NEW m2, m2 = SetSize(Destroy(m, x, p, Len(a)), x, p)
  PROVE  InHand(m0, v, x, SubSeq(a, 1, p), b, m2)
<1>1. PICK w : w = Both(v, x, a, "tail", b)
  OBVIOUS
<1>2. Sound(m, w) /\ w[x] = a
  BY <1>1, HandFacts
<1>3. Truncated(m, w, x, p, m2)
  BY <1>2 DEF Truncated
<1>4. Turns(m, w, x, SubSeq(w[x], 1, p), m2)
  BY <1>2, <1>3, SoundTruncate
<1>5. Turns(m, Both(v, x, a, "tail", b), x, SubSeq(a, 1, p), m2)
  BY <1>1, <1>2, <1>4
<1>. QED
  BY <1>5, HandTurns

Ensured(m0, v, x, a, b, m, desired, m2) ==
    /\ InHand(m0, v, x, a, b, m2) /\ Capacity(m2, x) >= desired
    /\ m.obj["tail"] = Empty => m2.obj["tail"] = Empty

\* has room made,
LEMMA HandEnsure ==
  ASSUME SequenceConstants, NEW v \in [All -> Seq(Elem)], NEW x \in All, x # "tail",
         NEW m0, NEW a, NEW b, NEW m, InHand(m0, v, x, a, b, m),
         NEW desired \in Nat, NEW m2, m2 = EnsureCapacity(m, x, desired)
  PROVE  Ensured(m0, v, x, a, b, m, desired, m2)
<1>1. PICK w : w = Both(v, x, a, "tail", b)
  OBVIOUS
<1>2. Sound(m, w) /\ a \in Seq(Elem) /\ b \in Seq(Elem) /\ Others(m0, m, {x, "tail"})
  BY <1>1 DEF InHand
<1>3. Sound(m2, w) /\ Others(m, m2, {x}) /\ Capacity(m2, x) >= desired
  BY <1>2, SoundEnsure
<1>4. "tail" \in All
  BY DEF All, Temporary
<1>5. Others(m0, m2, {x, "tail"}) /\ m2.obj["tail"] = m.obj["tail"]
  BY <1>2, <1>3, <1>4 DEF Others
<1>. QED
  BY <1>1, <1>2, <1>3, <1>5 DEF InHand, Ensured

\* pop_tail: gives its end to the temporary,
LEMMA HandPopTail ==
  ASSUME SequenceConstants, NEW v \in [All -> Seq(Elem)], NEW x \in All, x # "tail",
         NEW m0, NEW a, NEW m, InHand(m0, v, x, a, <<>>, m), m.obj["tail"] = Empty,
         NEW p \in Nat, p <= Len(a), NEW m2, m2 = PopTail(m, x, p)
  PROVE  InHand(m0, v, x, SubSeq(a, 1, p), SubSeq(a, p + 1, Len(a)), m2)
<1>1. /\ a \in Seq(Elem) /\ Size(m, x) = Len(a) /\ Elements(m, x) = a
      /\ Sound(m, Both(v, x, a, "tail", <<>>)) /\ "tail" \in All
  BY HandFacts
<1>2. PICK n \in Nat : n = Len(a)
  BY <1>1
<1>3. CASE p = n
  <2>1. m2 = m
    BY <1>1, <1>2, <1>3 DEF PopTail
  <2>2. SubSeq(a, 1, p) = a /\ SubSeq(a, p + 1, Len(a)) = <<>>
    BY <1>1, <1>2, <1>3
  <2>. QED
    BY <2>1, <2>2
<1>4. CASE p # n
  <2>0. a \in Seq(Elem) /\ p + 1 \in 1 .. n + 1
    BY <1>1, <1>2
  <2>1. PICK rest \in Seq(Elem) : rest = SubSeq(a, p + 1, n)
    <3>1. SubSeq(a, p + 1, n) \in Seq(Elem)
      BY <1>2, <2>0
    <3>. QED
      BY <3>1
  <2>2. PICK T : T = Initialize(m, "tail", rest)
    OBVIOUS
  <2>3. m2 = SetSize(Destroy(T, x, p, n), x, p)
    BY <1>1, <1>2, <1>4, <2>1, <2>2 DEF PopTail
  <2>4. Turns(m, Both(v, x, a, "tail", <<>>), "tail", rest, T)
    BY <1>1, <2>2, SoundInitialize
  <2>5. InHand(m0, v, x, a, rest, T)
    BY <2>4, TailTurns
  <2>6. InHand(m0, v, x, SubSeq(a, 1, p), rest, m2)
    BY <1>2, <2>3, <2>5, HandTruncate
  <2>. QED
    BY <1>2, <2>1, <2>6
<1>. QED
  BY <1>3, <1>4

\* and gets it back, which ends the operation.
LEMMA HandPutBack ==
  ASSUME SequenceConstants, NEW v \in [All -> Seq(Elem)], NEW x \in All, x # "tail", v["tail"] = <<>>,
         NEW m0, NEW a, NEW b, NEW m, InHand(m0, v, x, a, b, m), NEW m2, m2 = PutBack(m, x)
  PROVE  Done(m0, v, x, a \o b, m2)
<1>1. a \in Seq(Elem) /\ b \in Seq(Elem) /\ Elements(m, "tail") = b
  BY HandFacts
<1>2. PICK A : A = Append_(m, x, b)
  OBVIOUS
<1>3. PICK c \in Seq(Elem) : c = a \o b
  <2>1. a \in Seq(Elem) /\ b \in Seq(Elem)
    BY <1>1
  <2>2. a \o b \in Seq(Elem)
    BY <2>1
  <2>. QED
    BY <2>2
<1>4. InHand(m0, v, x, c, b, A)
  BY <1>1, <1>2, <1>3, HandAppend
<1>5. Sound(A, Both(v, x, c, "tail", b)) /\ "tail" \in All
  BY <1>4, HandFacts
<1>6. m2 = ClearStorage(A, "tail")
  BY <1>1, <1>2 DEF PutBack
<1>7. Turns(A, Both(v, x, c, "tail", b), "tail", <<>>, m2) /\ m2.obj["tail"] = Empty
  BY <1>5, <1>6, SoundClear
<1>8. InHand(m0, v, x, c, <<>>, m2)
  BY <1>4, <1>7, TailTurns
<1>9. Both(v, x, c, "tail", <<>>) = With(v, x, c)
  <2>1. PICK w \in [All -> Seq(Elem)] : w = With(v, x, c) /\ w["tail"] = <<>>
    BY <1>5, WithFacts
  <2>2. With(w, "tail", w["tail"]) = w
    BY <2>1 DEF With
  <2>. QED
    BY <2>1, <2>2 DEF Both
<1>. QED
  BY <1>3, <1>7, <1>8, <1>9 DEF InHand, Done

\* Operations begin with nothing in the temporary.
LEMMA HandFirst ==
  ASSUME SequenceConstants, NEW m, NEW v, Sound(m, v), NEW x \in All, x # "tail", m.obj["tail"] = Empty
  PROVE  InHand(m, v, x, v[x], <<>>, m) /\ v["tail"] = <<>> /\ v \in [All -> Seq(Elem)] /\ v[x] \in Seq(Elem)
<1>1. PICK t \in All : t = "tail"
  BY DEF All, Temporary
<1>2. Keeps(m, v) /\ v \in [All -> Seq(Elem)]
  BY SoundFacts
<1>3. v[t] = <<>>
  BY <1>1, <1>2, EmptyHolds
<1>4. PICK e \in Seq(Elem) : e = <<>>
  BY EmptyFacts
<1>5. Both(v, x, v[x], t, v[t]) = v
  BY <1>2 DEF Both, With
<1>. QED
  BY <1>1, <1>2, <1>3, <1>4, <1>5 DEF InHand, Others

Idle(m, v, x) == Sound(m, v) /\ x \in All /\ x # "tail" /\ m.obj["tail"] = Empty

\* An operation of one step.
LEMMA TurnsDone ==
  ASSUME SequenceConstants, NEW m, NEW v, NEW x, Idle(m, v, x), NEW q, NEW m2, Turns(m, v, x, q, m2)
  PROVE  Done(m, v, x, q, m2)
<1>1. "tail" \in All /\ x # "tail"
  BY DEF All, Temporary, Idle
<1>2. Others(m, m2, {x}) /\ q \in Seq(Elem) /\ Sound(m2, With(v, x, q))
  BY DEF Turns
<1>3. m2.obj["tail"] = m.obj["tail"] /\ Others(m, m2, {x, "tail"})
  BY <1>1, <1>2 DEF Others
<1>. QED
  BY <1>2, <1>3 DEF Done, Idle

\* What an operation on x finds.
LEMMA IdleFirst ==
  ASSUME SequenceConstants, NEW m, NEW v, NEW x, Idle(m, v, x)
  PROVE  /\ InHand(m, v, x, v[x], <<>>, m) /\ v["tail"] = <<>> /\ v \in [All -> Seq(Elem)]
         /\ v[x] \in Seq(Elem) /\ Size(m, x) = Len(v[x])
<1>1. /\ InHand(m, v, x, v[x], <<>>, m) /\ v["tail"] = <<>> /\ v \in [All -> Seq(Elem)]
      /\ v[x] \in Seq(Elem)
  BY HandFirst DEF Idle
<1>2. Size(m, x) = Len(v[x])
  BY ObjectFacts, SoundFacts DEF Idle
<1>. QED
  BY <1>1, <1>2

\* A sequence in two parts.
LEMMA SplitFacts ==
  ASSUME NEW a \in Seq(Elem), NEW p \in Nat, p <= Len(a)
  PROVE  /\ SubSeq(a, 1, p) \in Seq(Elem) /\ Len(SubSeq(a, 1, p)) = p
         /\ SubSeq(a, p + 1, Len(a)) \in Seq(Elem) /\ Len(SubSeq(a, p + 1, Len(a))) = Len(a) - p
<1>1. PICK n \in Nat : n = Len(a)
  OBVIOUS
<1>2. p + 1 \in 1 .. n + 1
  BY <1>1
<1>3. SubSeq(a, 1, p) \in Seq(Elem) /\ Len(SubSeq(a, 1, p)) = p
  OBVIOUS
<1>4. SubSeq(a, p + 1, n) \in Seq(Elem)
  BY <1>1, <1>2
<1>5. Len(SubSeq(a, p + 1, n)) = n - p
  <2>1. CASE p = n
    BY <1>1, <2>1
  <2>2. CASE p < n
    BY <1>1, <2>2
  <2>. QED
    BY <1>1, <2>1, <2>2
<1>. QED
  BY <1>1, <1>3, <1>4, <1>5

\* What comes between the two parts of a sequence.
LEMMA Insertion ==
  ASSUME SequenceConstants, NEW m, NEW v, NEW x, Idle(m, v, x), NEW M, InHand(m, v, x, v[x], <<>>, M),
         M.obj["tail"] = Empty, NEW p \in Nat, p <= Len(v[x]), NEW q \in Seq(Elem),
         NEW m2, m2 = PutBack(Append_(PopTail(M, x, p), x, q), x)
  PROVE  Done(m, v, x, (SubSeq(v[x], 1, p) \o q) \o SubSeq(v[x], p + 1, Len(v[x])), m2)
<1>0. /\ v["tail"] = <<>> /\ v \in [All -> Seq(Elem)] /\ v[x] \in Seq(Elem) /\ x \in All /\ x # "tail"
  BY IdleFirst DEF Idle
<1>1. PICK a \in Seq(Elem) : a = v[x]
  BY <1>0
<1>2. PICK P : P = PopTail(M, x, p)
  OBVIOUS
<1>3. InHand(m, v, x, a, <<>>, M) /\ p <= Len(a)
  BY <1>1
<1>4. InHand(m, v, x, SubSeq(a, 1, p), SubSeq(a, p + 1, Len(a)), P)
  BY <1>0, <1>2, <1>3, HandPopTail
<1>5. PICK A : A = Append_(P, x, q)
  OBVIOUS
<1>6. InHand(m, v, x, SubSeq(a, 1, p) \o q, SubSeq(a, p + 1, Len(a)), A)
  BY <1>0, <1>4, <1>5, HandAppend
<1>7. m2 = PutBack(A, x)
  BY <1>2, <1>5
<1>8. Done(m, v, x, (SubSeq(a, 1, p) \o q) \o SubSeq(a, p + 1, Len(a)), m2)
  BY <1>0, <1>6, <1>7, HandPutBack
<1>. QED
  BY <1>1, <1>8

\* With one element between the two parts: InsertAt.
LEMMA InsertAtFacts ==
  ASSUME NEW a \in Seq(Elem), NEW p \in Nat, p <= Len(a), NEW e \in Elem
  PROVE  /\ (SubSeq(a, 1, p) \o <<e>>) \o SubSeq(a, p + 1, Len(a)) = InsertAt(a, p + 1, e)
         /\ InsertAt(a, p + 1, e) \in Seq(Elem) /\ Len(InsertAt(a, p + 1, e)) = Len(a) + 1
<1>1. (p + 1) - 1 = p
  OBVIOUS
<1>2. InsertAt(a, p + 1, e) = (SubSeq(a, 1, p) \o <<e>>) \o SubSeq(a, p + 1, Len(a))
  BY <1>1 DEF InsertAt
<1>3. PICK l, r : l = SubSeq(a, 1, p) /\ r = SubSeq(a, p + 1, Len(a))
  OBVIOUS
<1>4. l \in Seq(Elem) /\ Len(l) = p /\ r \in Seq(Elem) /\ Len(r) = Len(a) - p
  BY <1>3, SplitFacts
<1>5. PICK q : q = l \o <<e>>
  OBVIOUS
<1>6. q \in Seq(Elem) /\ Len(q) = p + 1
  BY <1>4, <1>5
<1>7. PICK s : s = q \o r
  OBVIOUS
<1>8. s \in Seq(Elem) /\ Len(s) = Len(q) + Len(r)
  <2>1. q \in Seq(Elem) /\ r \in Seq(Elem)
    BY <1>4, <1>6
  <2>2. q \o r \in Seq(Elem) /\ Len(q \o r) = Len(q) + Len(r)
    BY <2>1, ConcatProperties
  <2>. QED
    BY <1>7, <2>2
<1>9. Len(s) = Len(a) + 1
  <2>1. PICK n \in Nat : n = Len(a)
    OBVIOUS
  <2>. QED
    BY <1>4, <1>6, <1>8, <2>1
<1>10. s = InsertAt(a, p + 1, e)
  BY <1>2, <1>3, <1>5, <1>7
<1>. QED
  BY <1>2, <1>8, <1>9, <1>10

\* emplace and emplace_back insert one element.
LEMMA EmplaceFacts ==
  ASSUME SequenceConstants, NEW m, NEW v, NEW x, Idle(m, v, x), NEW p \in Nat, p <= Len(v[x]), NEW e \in Elem,
         NEW m2, m2 = Emplace(m, x, p, e)
  PROVE  Done(m, v, x, InsertAt(v[x], p + 1, e), m2)
<1>0. /\ InHand(m, v, x, v[x], <<>>, m) /\ v["tail"] = <<>> /\ v \in [All -> Seq(Elem)]
      /\ v[x] \in Seq(Elem) /\ Size(m, x) = Len(v[x]) /\ x \in All /\ x # "tail" /\ m.obj["tail"] = Empty
  BY IdleFirst DEF Idle
<1>1. PICK a \in Seq(Elem), n \in Nat : a = v[x] /\ n = Len(a) /\ Size(m, x) = n /\ p <= n
  BY <1>0
<1>2. PICK q \in Seq(Elem) : q = <<e>>
  <2>1. <<e>> \in Seq(Elem)
    OBVIOUS
  <2>. QED
    BY <2>1
<1>3. CASE p = n
  <2>1. m2 = Append_(m, x, q)
    BY <1>1, <1>2, <1>3 DEF Emplace, EmplaceBack
  <2>2. Turns(m, v, x, v[x] \o q, m2)
    BY <1>0, <2>1, SoundAppend DEF Idle
  <2>3. SubSeq(a, 1, p) = a /\ SubSeq(a, p + 1, Len(a)) = <<>>
    BY <1>1, <1>3
  <2>4. PICK s : s = a \o q
    OBVIOUS
  <2>5. s \in Seq(Elem)
    BY <2>4
  <2>6. s \o <<>> = s
    BY <2>5
  <2>7. (SubSeq(a, 1, p) \o <<e>>) \o SubSeq(a, p + 1, Len(a)) = InsertAt(a, p + 1, e)
    BY <1>1, InsertAtFacts
  <2>8. InsertAt(a, p + 1, e) = v[x] \o q
    BY <1>1, <1>2, <2>3, <2>4, <2>6, <2>7
  <2>. QED
    <3>1. Turns(m, v, x, InsertAt(v[x], p + 1, e), m2)
      BY <1>1, <2>2, <2>8
    <3>. QED
      BY <3>1, TurnsDone
<1>4. CASE p # n
  <2>1. PICK E : E = EnsureCapacity(m, x, n + 1)
    OBVIOUS
  <2>2. m2 = PutBack(Append_(PopTail(E, x, p), x, q), x)
    BY <1>1, <1>2, <1>4, <2>1 DEF Emplace, EmplaceBack
  <2>3. InHand(m, v, x, v[x], <<>>, E) /\ E.obj["tail"] = Empty
    <3>1. n + 1 \in Nat
      BY <1>1
    <3>. QED
      <4>1. Ensured(m, v, x, v[x], <<>>, m, n + 1, E)
        BY <1>0, <2>1, <3>1, HandEnsure
      <4>. QED
        BY <1>0, <4>1 DEF Ensured
  <2>4. Done(m, v, x, (SubSeq(v[x], 1, p) \o q) \o SubSeq(v[x], p + 1, Len(v[x])), m2)
    BY <2>2, <2>3, Insertion
  <2>5. (SubSeq(v[x], 1, p) \o q) \o SubSeq(v[x], p + 1, Len(v[x])) = InsertAt(v[x], p + 1, e)
    BY <1>1, <1>2, InsertAtFacts
  <2>. QED
    BY <2>4, <2>5
<1>. QED
  BY <1>3, <1>4

\* The parts of what was put together.
LEMMA PartsOfConcat ==
  ASSUME NEW l \in Seq(Elem), NEW r \in Seq(Elem), NEW s, s = l \o r
  PROVE  /\ s \in Seq(Elem) /\ Len(s) = Len(l) + Len(r)
         /\ SubSeq(s, 1, Len(l)) = l /\ SubSeq(s, Len(l) + 1, Len(s)) = r
<1>1. PICK p \in Nat, k \in Nat : p = Len(l) /\ k = Len(r)
  OBVIOUS
<1>2. s \in Seq(Elem) /\ Len(s) = p + k
  BY <1>1
<1>3. \A i \in 1 .. p + k : s[i] = IF i <= p THEN l[i] ELSE r[i - p]
  BY <1>1, ConcatProperties
<1>4. SubSeq(s, 1, p) = l
  <2>1. PICK f : f = SubSeq(s, 1, p)
    OBVIOUS
  <2>2. f \in Seq(Elem) /\ Len(f) = p
    BY <1>2, <2>1, SplitFacts
  <2>3. \A i \in 1 .. p : f[i] = l[i]
    BY <1>1, <1>2, <1>3, <2>1
  <2>. QED
    BY <1>1, <2>1, <2>2, <2>3, SeqEqual
<1>5. SubSeq(s, p + 1, p + k) = r
  <2>1. PICK f : f = SubSeq(s, p + 1, p + k)
    OBVIOUS
  <2>2. f \in Seq(Elem) /\ Len(f) = k
    <3>1. SubSeq(s, p + 1, Len(s)) \in Seq(Elem) /\ Len(SubSeq(s, p + 1, Len(s))) = Len(s) - p
      BY <1>2, SplitFacts
    <3>. QED
      BY <1>2, <2>1, <3>1
  <2>3. ASSUME NEW i \in 1 .. k PROVE f[i] = r[i]
    <3>1. f[i] = s[p + i]
      BY <1>2, <2>1, <2>2
    <3>2. p + i \in 1 .. p + k /\ ~ (p + i <= p) /\ (p + i) - p = i
      BY <1>1
    <3>3. s[p + i] = r[i]
      BY <1>3, <3>2
    <3>. QED
      BY <3>1, <3>3
  <2>. QED
    BY <1>1, <2>1, <2>2, <2>3, SeqEqual
<1>. QED
  BY <1>1, <1>2, <1>4, <1>5

\* Three parts after each other.
LEMMA Together ==
  ASSUME NEW a \in Seq(Elem), NEW b \in Seq(Elem), NEW c \in Seq(Elem)
  PROVE  (a \o b) \o c = a \o (b \o c)
BY ConcatAssociative

\* With two equal elements between the parts.
LEMMA InsertTwice ==
  ASSUME NEW a \in Seq(Elem), NEW p \in Nat, p <= Len(a), NEW e \in Elem
  PROVE  (SubSeq(a, 1, p) \o <<e, e>>) \o SubSeq(a, p + 1, Len(a)) = InsertAt(InsertAt(a, p + 1, e), p + 1, e)
<1>1. PICK l, r, E : l = SubSeq(a, 1, p) /\ r = SubSeq(a, p + 1, Len(a)) /\ E = <<e>>
  OBVIOUS
<1>2. l \in Seq(Elem) /\ Len(l) = p /\ r \in Seq(Elem) /\ E \in Seq(Elem) /\ <<e, e>> = E \o E
  BY <1>1, SplitFacts
<1>3. PICK s, u : s = (l \o E) \o r /\ u = E \o r
  OBVIOUS
<1>4. s = InsertAt(a, p + 1, e) /\ s \in Seq(Elem) /\ Len(s) = Len(a) + 1
  BY <1>1, <1>3, InsertAtFacts
<1>5. u \in Seq(Elem) /\ s = l \o u
  <2>1. l \in Seq(Elem) /\ E \in Seq(Elem) /\ r \in Seq(Elem)
    BY <1>2
  <2>2. (l \o E) \o r = l \o (E \o r)
    BY <2>1, Together
  <2>. QED
    BY <1>3, <2>1, <2>2
<1>6. SubSeq(s, 1, p) = l /\ SubSeq(s, p + 1, Len(s)) = u
  BY <1>2, <1>5, PartsOfConcat
<1>7. InsertAt(s, p + 1, e) = (l \o E) \o u
  <2>1. (SubSeq(s, 1, p) \o <<e>>) \o SubSeq(s, p + 1, Len(s)) = InsertAt(s, p + 1, e)
    <3>1. p <= Len(s)
      BY <1>4
    <3>. QED
      BY <1>4, <3>1, InsertAtFacts
  <2>. QED
    BY <1>1, <1>6, <2>1
<1>8. PICK k : k = l \o E
  OBVIOUS
<1>9. k \in Seq(Elem) /\ k \o E = l \o (E \o E)
  BY <1>2, <1>8, Together
<1>10. (k \o E) \o r = k \o (E \o r)
  <2>1. k \in Seq(Elem) /\ E \in Seq(Elem) /\ r \in Seq(Elem)
    BY <1>2, <1>9
  <2>. QED
    BY <2>1, Together
<1>. QED
  BY <1>1, <1>2, <1>3, <1>4, <1>7, <1>8, <1>9, <1>10

\* insert(p, n, v)
LEMMA InsertNFacts ==
  ASSUME SequenceConstants, NEW m, NEW v, NEW x, Idle(m, v, x), NEW p \in Nat, p <= Len(v[x]), NEW e \in Elem,
         NEW m2, m2 = InsertN(m, x, p, <<e, e>>)
  PROVE  Done(m, v, x, InsertAt(InsertAt(v[x], p + 1, e), p + 1, e), m2)
<1>0. /\ InHand(m, v, x, v[x], <<>>, m) /\ v["tail"] = <<>> /\ v \in [All -> Seq(Elem)]
      /\ v[x] \in Seq(Elem) /\ Size(m, x) = Len(v[x]) /\ x \in All /\ x # "tail" /\ m.obj["tail"] = Empty
  BY IdleFirst DEF Idle
<1>1. PICK a \in Seq(Elem), n \in Nat : a = v[x] /\ n = Len(a) /\ Size(m, x) = n /\ p <= n
  BY <1>0
<1>2. PICK q \in Seq(Elem) : q = <<e, e>> /\ Len(q) = 2
  <2>1. <<e, e>> \in Seq(Elem) /\ Len(<<e, e>>) = 2
    OBVIOUS
  <2>. QED
    BY <2>1
<1>3. PICK E : E = EnsureCapacity(m, x, n + 2)
  OBVIOUS
<1>4. m2 = PutBack(Append_(PopTail(E, x, p), x, q), x)
  BY <1>1, <1>2, <1>3 DEF InsertN
<1>5. InHand(m, v, x, v[x], <<>>, E) /\ E.obj["tail"] = Empty
  <2>1. n + 2 \in Nat
    BY <1>1
  <2>. QED
    <3>1. Ensured(m, v, x, v[x], <<>>, m, n + 2, E)
      BY <1>0, <1>3, <2>1, HandEnsure
    <3>. QED
      BY <1>0, <3>1 DEF Ensured
<1>6. Done(m, v, x, (SubSeq(v[x], 1, p) \o q) \o SubSeq(v[x], p + 1, Len(v[x])), m2)
  BY <1>4, <1>5, Insertion
<1>7. (SubSeq(a, 1, p) \o <<e, e>>) \o SubSeq(a, p + 1, Len(a)) = InsertAt(InsertAt(a, p + 1, e), p + 1, e)
  BY <1>1, InsertTwice
<1>. QED
  BY <1>1, <1>2, <1>6, <1>7

\* insert(p, range)
LEMMA InsertRangeFacts ==
  ASSUME SequenceConstants, NEW m, NEW v, NEW x, Idle(m, v, x), NEW p \in Nat, p <= Len(v[x]), NEW q \in Seq(Elem),
         NEW m2, m2 = InsertRange(m, x, p, q)
  PROVE  Done(m, v, x, (SubSeq(v[x], 1, p) \o q) \o SubSeq(v[x], p + 1, Len(v[x])), m2)
<1>1. InHand(m, v, x, v[x], <<>>, m) /\ m.obj["tail"] = Empty
  BY IdleFirst DEF Idle
<1>2. m2 = PutBack(Append_(PopTail(m, x, p), x, q), x)
  BY DEF InsertRange
<1>. QED
  BY <1>1, <1>2, Insertion

Copies(n, e) == [i \in 1 .. n |-> e]

\* n times e is a sequence.
LEMMA CopiesFacts ==
  ASSUME NEW n \in Nat, NEW e \in Elem
  PROVE  Copies(n, e) \in Seq(Elem) /\ Len(Copies(n, e)) = n
BY DEF Copies

\* resize to fewer,
LEMMA SoundShrink ==
  ASSUME SequenceConstants, NEW m, NEW v, Sound(m, v), NEW x \in All, NEW n \in Nat, n < Len(v[x]), NEW e,
         NEW m2, m2 = Resize(m, x, n, e)
  PROVE  Turns(m, v, x, SubSeq(v[x], 1, n), m2)
<1>1. Size(m, x) = Len(v[x]) /\ Len(v[x]) \in Nat
  BY SoundFacts, ObjectFacts
<1>2. m2 = SetSize(Destroy(m, x, n, Len(v[x])), x, n)
  BY <1>1 DEF Resize
<1>3. Truncated(m, v, x, n, m2)
  BY <1>1, <1>2 DEF Truncated
<1>. QED
  BY <1>3, SoundTruncate

\* resize to more.
LEMMA SoundExtend ==
  ASSUME SequenceConstants, NEW m, NEW v, Sound(m, v), NEW x \in All, NEW n \in Nat, n >= Len(v[x]), NEW e \in Elem,
         NEW m2, m2 = Resize(m, x, n, e)
  PROVE  Turns(m, v, x, v[x] \o Copies(n - Len(v[x]), e), m2)
<1>1. PICK k \in Nat : k = Len(v[x]) /\ k = Size(m, x)
  BY SoundFacts, ObjectFacts
<1>2. PICK E : E = EnsureCapacity(m, x, n)
  OBVIOUS
<1>3. Sound(E, v) /\ Others(m, E, {x}) /\ Capacity(E, x) >= n
  BY <1>2, SoundEnsure
<1>4. PICK q : q = Copies(n - k, e)
  OBVIOUS
<1>5. q \in Seq(Elem) /\ Len(q) = n - k
  <2>1. n - k \in Nat
    BY <1>1
  <2>. QED
    BY <1>4, <2>1, CopiesFacts
<1>6. m2 = SetSize(Construct(E, x, k, q), x, n)
  BY <1>1, <1>2, <1>4 DEF Resize, Copies
<1>7. Capacity(E, x) \in Nat
  BY <1>3, SoundFacts, ObjectFacts
<1>8. Constructed(E, v, x, q, m2)
  BY <1>1, <1>3, <1>5, <1>6, <1>7 DEF Constructed
<1>9. Turns(E, v, x, v[x] \o q, m2)
  BY <1>3, <1>5, <1>8, SoundConstruct
<1>10. Turns(m, v, x, v[x] \o q, m2)
  BY <1>3, <1>9 DEF Turns, Others
<1>. QED
  BY <1>1, <1>4, <1>10

\* pop_back removes the last.
LEMMA SoundPopBack ==
  ASSUME SequenceConstants, NEW m, NEW v, Sound(m, v), NEW x \in All, Len(v[x]) > 0,
         NEW m2, m2 = PopBack(m, x)
  PROVE  Turns(m, v, x, SubSeq(v[x], 1, Len(v[x]) - 1), m2)
<1>1. PICK k \in Nat : k = Len(v[x]) /\ k = Size(m, x)
  BY SoundFacts, ObjectFacts
<1>2. k - 1 \in Nat /\ k - 1 <= k
  BY <1>1
<1>3. m2 = SetSize(Destroy(m, x, k - 1, k), x, k - 1)
  BY <1>1 DEF PopBack
<1>4. Truncated(m, v, x, k - 1, m2)
  BY <1>1, <1>2, <1>3 DEF Truncated
<1>5. Turns(m, v, x, SubSeq(v[x], 1, k - 1), m2)
  BY <1>2, <1>4, SoundTruncate
<1>. QED
  BY <1>1, <1>5

\* A prefix of a prefix.
LEMMA PrefixOfPrefix ==
  ASSUME NEW a \in Seq(Elem), NEW k \in Nat, k <= Len(a), NEW p \in Nat, p <= k
  PROVE  SubSeq(SubSeq(a, 1, k), 1, p) = SubSeq(a, 1, p) /\ Len(SubSeq(a, 1, k)) = k
<1>1. PICK f : f = SubSeq(a, 1, k)
  OBVIOUS
<1>2. f \in Seq(Elem) /\ Len(f) = k /\ \A i \in 1 .. k : f[i] = a[i]
  <2>1. f \in Seq(Elem) /\ Len(f) = k
    BY <1>1, SplitFacts
  <2>2. \A i \in 1 .. k : f[i] = a[i]
    BY <1>1, <2>1
  <2>. QED
    BY <2>1, <2>2
<1>3. PICK g, h : g = SubSeq(f, 1, p) /\ h = SubSeq(a, 1, p)
  OBVIOUS
<1>4. p <= Len(a) /\ p <= Len(f)
  BY <1>2
<1>5. g \in Seq(Elem) /\ Len(g) = p /\ h \in Seq(Elem) /\ Len(h) = p
  BY <1>2, <1>3, <1>4, SplitFacts
<1>6. ASSUME NEW i \in 1 .. p PROVE g[i] = h[i]
  <2>1. g[i] = f[i] /\ h[i] = a[i]
    BY <1>2, <1>3, <1>4, <1>5
  <2>2. f[i] = a[i]
    BY <1>2
  <2>. QED
    BY <2>1, <2>2
<1>7. g = h
  BY <1>5, <1>6, SeqEqual
<1>. QED
  BY <1>1, <1>2, <1>3, <1>7

\* erase of one element.
LEMMA EraseFacts ==
  ASSUME SequenceConstants, NEW m, NEW v, NEW x, Idle(m, v, x), NEW q \in Nat, q < Len(v[x]),
         NEW m2, m2 = Erase(m, x, q)
  PROVE  Done(m, v, x, RemoveAt(v[x], q + 1), m2)
<1>0. /\ InHand(m, v, x, v[x], <<>>, m) /\ v \in [All -> Seq(Elem)] /\ v[x] \in Seq(Elem)
      /\ x \in All /\ x # "tail" /\ m.obj["tail"] = Empty /\ Sound(m, v) /\ Size(m, x) = Len(v[x])
  BY IdleFirst DEF Idle
<1>1. PICK a \in Seq(Elem), n \in Nat : a = v[x] /\ n = Len(a) /\ Size(m, x) = n /\ q < n
  BY <1>0
<1>2. RemoveAt(a, q + 1) = SubSeq(a, 1, q) \o SubSeq(a, q + 2, n)
  <2>1. (q + 1) - 1 = q /\ (q + 1) + 1 = q + 2
    OBVIOUS
  <2>. QED
    BY <1>1, <2>1 DEF RemoveAt
<1>3. CASE q = n - 1
  <2>1. m2 = PopBack(m, x)
    BY <1>1, <1>3 DEF Erase
  <2>2. Turns(m, v, x, SubSeq(v[x], 1, Len(v[x]) - 1), m2)
    BY <1>0, <1>1, <2>1, SoundPopBack
  <2>3. SubSeq(a, q + 2, n) = <<>>
    BY <1>1, <1>3
  <2>4. PICK f : f = SubSeq(a, 1, q)
    OBVIOUS
  <2>5. f \in Seq(Elem)
    BY <1>1, <2>4, SplitFacts
  <2>6. f \o <<>> = f
    BY <2>5
  <2>7. Turns(m, v, x, RemoveAt(v[x], q + 1), m2)
    BY <1>1, <1>2, <1>3, <2>2, <2>3, <2>4, <2>6
  <2>. QED
    BY <2>7, TurnsDone
<1>4. CASE q # n - 1
  <2>1. PICK P, M : P = PopTail(m, x, q + 1) /\ M = PopBack(P, x)
    OBVIOUS
  <2>2. m2 = PutBack(M, x)
    BY <1>1, <1>4, <2>1 DEF Erase
  <2>3. q + 1 \in Nat /\ q + 1 <= n /\ q <= q + 1 /\ (q + 1) + 1 = q + 2
    BY <1>1
  <2>4. InHand(m, v, x, SubSeq(a, 1, q + 1), SubSeq(a, (q + 1) + 1, Len(a)), P)
    BY <1>0, <1>1, <2>1, <2>3, HandPopTail
  <2>5. PICK f, t : f = SubSeq(a, 1, q + 1) /\ t = SubSeq(a, (q + 1) + 1, Len(a))
    OBVIOUS
  <2>12. InHand(m, v, x, f, t, P)
    BY <2>4, <2>5
  <2>13. PICK w : w = Both(v, x, f, "tail", t)
    OBVIOUS
  <2>6. Sound(P, w) /\ w[x] = f
    BY <1>0, <2>12, <2>13, HandFacts
  <2>7. Len(f) = q + 1 /\ SubSeq(f, 1, q) = SubSeq(a, 1, q)
    BY <1>1, <2>3, <2>5, PrefixOfPrefix
  <2>8. Turns(P, w, x, SubSeq(w[x], 1, Len(w[x]) - 1), M)
    <3>1. Len(w[x]) > 0
      BY <2>6, <2>7
    <3>. QED
      BY <1>0, <2>1, <2>6, <3>1, SoundPopBack
  <2>9. Turns(P, w, x, SubSeq(a, 1, q), M)
    <3>1. Len(w[x]) - 1 = q
      BY <2>6, <2>7
    <3>. QED
      BY <2>6, <2>7, <2>8, <3>1
  <2>10. InHand(m, v, x, SubSeq(a, 1, q), t, M)
    BY <1>0, <2>12, <2>13, <2>9, HandTurns
  <2>11. Done(m, v, x, SubSeq(a, 1, q) \o SubSeq(a, (q + 1) + 1, Len(a)), m2)
    BY <1>0, <2>2, <2>5, <2>10, HandPutBack, IdleFirst
  <2>. QED
    BY <1>1, <1>2, <2>3, <2>11
<1>. QED
  BY <1>3, <1>4

\* erase of a range.
LEMMA EraseRangeFacts ==
  ASSUME SequenceConstants, NEW m, NEW v, NEW x, Idle(m, v, x), NEW k \in Nat, k <= Len(v[x]), NEW p \in Nat, p <= k,
         NEW m2, m2 = EraseRange(m, x, p, k)
  PROVE  Done(m, v, x, SubSeq(v[x], 1, p) \o SubSeq(v[x], k + 1, Len(v[x])), m2)
<1>0. /\ InHand(m, v, x, v[x], <<>>, m) /\ v \in [All -> Seq(Elem)] /\ v[x] \in Seq(Elem) /\ v["tail"] = <<>>
      /\ x \in All /\ x # "tail" /\ m.obj["tail"] = Empty /\ Sound(m, v) /\ Size(m, x) = Len(v[x])
  BY IdleFirst DEF Idle
<1>1. PICK a \in Seq(Elem), n \in Nat : a = v[x] /\ n = Len(a) /\ k <= n
  BY <1>0
<1>2. PICK P : P = PopTail(m, x, k)
  OBVIOUS
<1>3. PICK f, t : f = SubSeq(a, 1, k) /\ t = SubSeq(a, k + 1, Len(a))
  OBVIOUS
<1>4. InHand(m, v, x, f, t, P)
  <2>1. InHand(m, v, x, a, <<>>, m)
    BY <1>0, <1>1
  <2>2. InHand(m, v, x, SubSeq(a, 1, k), SubSeq(a, k + 1, Len(a)), P)
    BY <1>0, <1>1, <1>2, <2>1, HandPopTail
  <2>. QED
    BY <1>3, <2>2
<1>5. f \in Seq(Elem) /\ Len(f) = k /\ SubSeq(f, 1, p) = SubSeq(a, 1, p)
  BY <1>1, <1>3, PrefixOfPrefix, SplitFacts
<1>6. PICK w : w = Both(v, x, f, "tail", t)
  OBVIOUS
<1>7. Sound(P, w) /\ w[x] = f /\ Size(P, x) = k
  BY <1>0, <1>4, <1>5, <1>6, HandFacts
<1>8. PICK M : M = Resize(P, x, p, Null)
  OBVIOUS
<1>9. m2 = PutBack(M, x)
  <2>1. k - (k - p) = p
    OBVIOUS
  <2>. QED
    BY <1>2, <1>7, <1>8, <2>1 DEF EraseRange
<1>10. Turns(P, w, x, SubSeq(a, 1, p), M)
  <2>1. CASE p < k
    <3>1. p < Len(w[x])
      BY <1>5, <1>7, <2>1
    <3>2. Turns(P, w, x, SubSeq(w[x], 1, p), M)
      BY <1>0, <1>7, <1>8, <3>1, SoundShrink
    <3>. QED
      BY <1>5, <1>7, <3>2
  <2>2. CASE p = k
    <3>1. p >= Len(w[x]) /\ p - Len(w[x]) = 0 /\ Null \in Elem
      BY <1>5, <1>7, <2>2 DEF Elem
    <3>2. Turns(P, w, x, w[x] \o Copies(p - Len(w[x]), Null), M)
      BY <1>0, <1>7, <1>8, <3>1, SoundExtend
    <3>3. Copies(0, Null) = <<>>
      BY DEF Copies
    <3>4. f \o <<>> = f
      BY <1>5
    <3>5. SubSeq(a, 1, p) = f
      BY <1>3, <2>2
    <3>. QED
      BY <1>7, <3>1, <3>2, <3>3, <3>4, <3>5
  <2>. QED
    BY <2>1, <2>2
<1>11. InHand(m, v, x, SubSeq(a, 1, p), t, M)
  BY <1>0, <1>4, <1>6, <1>10, HandTurns
<1>12. Done(m, v, x, SubSeq(a, 1, p) \o t, m2)
  BY <1>0, <1>9, <1>11, HandPutBack
<1>. QED
  BY <1>1, <1>3, <1>12

\* append(sequence&&) of a sequence that is not x itself.
AppendedMoved(m, v, x, y, m2) ==
    /\ Sound(m2, Both(v, x, v[x] \o v[y], y,
                      IF Size(m, x) = 0 /\ Capacity(m, x) <= Size(m, y) THEN <<>> ELSE Left(v[y])))
    /\ Others(m, m2, {x, y})

\* append(sequence&&): takes the other's object over or moves its elements.
LEMMA AppendMovedFacts ==
  ASSUME SequenceConstants, NEW m, NEW v, Sound(m, v), NEW x \in Name, NEW y \in Name, x # y, m.obj["other"] = Empty,
         NEW m2, m2 = AppendMoved(m, x, y)
  PROVE  AppendedMoved(m, v, x, y, m2)
<1>0. PICK o : o = "other" /\ o \in All /\ x \in All /\ y \in All /\ x # o /\ y # o /\ m.obj[o] = Empty
  BY DEF SequenceConstants, All, Temporary
<1>1. v \in [All -> Seq(Elem)] /\ Keeps(m, v) /\ Size(m, x) = Len(v[x]) /\ Elements(m, y) = v[y]
  BY <1>0, SoundFacts, ObjectFacts
<1>2. PICK a \in Seq(Elem), b \in Seq(Elem) : a = v[x] /\ b = v[y]
  BY <1>0, <1>1
<1>3. CASE Size(m, x) = 0 /\ Capacity(m, x) <= Size(m, y)
  <2>1. PICK M, w : M = MoveFrom(m, o, y) /\ w = Both(v, o, v[y], y, <<>>)
    OBVIOUS
  <2>2. Sound(M, w) /\ Others(m, M, {o, y})
    BY <1>0, <2>1, SoundMoveFrom
  <2>3. m2 = Assign(M, x)
    BY <1>0, <1>3, <2>1 DEF AppendMoved
  <2>4. Sound(m2, Both(w, x, w["other"], "other", <<>>)) /\ Others(M, m2, {x, "other"}) /\ m2.obj["other"] = Empty
    BY <1>0, <2>2, <2>3, SoundAssign DEF Assigned
  <2>5. v[o] = <<>> /\ a = <<>>
    <3>1. v[o] = <<>>
      BY <1>0, <1>1, EmptyHolds
    <3>2. Len(a) = 0
      BY <1>1, <1>2, <1>3
    <3>. QED
      BY <3>1, <3>2
  <2>6. Both(w, x, w[o], o, <<>>) = Both(v, x, a \o b, y, <<>>)
    <3>1. w = [z \in All |-> IF z = y THEN <<>> ELSE IF z = o THEN b ELSE v[z]]
      BY <1>0, <1>1, <1>2, <2>1 DEF Both, With
    <3>2. w[o] = b
      BY <1>0, <3>1
    <3>3. a \o b = b
      BY <2>5
    <3>4. Both(w, x, b, o, <<>>) = [z \in All |-> IF z = o THEN <<>> ELSE IF z = x THEN b ELSE w[z]]
      BY <3>1 DEF Both, With
    <3>5. Both(v, x, b, y, <<>>) = [z \in All |-> IF z = y THEN <<>> ELSE IF z = x THEN b ELSE v[z]]
      BY <1>1 DEF Both, With
    <3>6. ASSUME NEW z \in All
          PROVE  (IF z = o THEN <<>> ELSE IF z = x THEN b ELSE w[z]) = IF z = y THEN <<>> ELSE IF z = x THEN b ELSE v[z]
      BY <1>0, <2>5, <3>1
    <3>. QED
      BY <3>2, <3>3, <3>4, <3>5, <3>6
  <2>7. Others(m, m2, {x, y})
    <3>1. m2.obj[o] = m.obj[o]
      BY <1>0, <2>4
    <3>. QED
      BY <1>0, <2>2, <2>4, <3>1 DEF Others
  <2>. QED
    BY <1>0, <1>2, <1>3, <2>4, <2>6, <2>7 DEF AppendedMoved
<1>4. CASE ~(Size(m, x) = 0 /\ Capacity(m, x) <= Size(m, y))
  <2>1. PICK A, w : A = Append_(m, x, b) /\ w = With(v, x, a \o b)
    OBVIOUS
  <2>2. Turns(m, v, x, a \o b, A)
    BY <1>0, <1>2, <2>1, SoundAppend
  <2>3. Sound(A, w) /\ Others(m, A, {x})
    BY <2>1, <2>2 DEF Turns
  <2>4. m2 = MoveOut(A, y)
    BY <1>1, <1>2, <1>4, <2>1 DEF AppendMoved
  <2>5. Turns(A, w, y, Left(w[y]), m2)
    BY <1>0, <2>3, <2>4, SoundMoveOut
  <2>6. w[y] = b
    <3>1. PICK s : s = a \o b
      OBVIOUS
    <3>2. w = [v EXCEPT ![x] = s]
      BY <2>1, <3>1 DEF With
    <3>. QED
      BY <1>0, <1>1, <1>2, <3>2
  <2>7. Sound(m2, Both(v, x, a \o b, y, Left(b))) /\ Others(A, m2, {y})
    BY <2>1, <2>5, <2>6 DEF Turns, Both
  <2>8. Others(m, m2, {x, y})
    BY <2>3, <2>7 DEF Others
  <2>. QED
    BY <1>2, <1>4, <2>7, <2>8 DEF AppendedMoved
<1>. QED
  BY <1>3, <1>4

Full(u) == [x \in All |-> IF x \in Name THEN u[x] ELSE <<>>]

\* Between operations: nothing is in the temporaries.
Rests(m, u) ==
    /\ u \in [Name -> Seq(Elem)] /\ Sound(m, Full(u))
    /\ m.obj["tail"] = Empty /\ m.obj["other"] = Empty

\* Names and temporaries are different.
LEMMA NameFacts ==
  ASSUME SequenceConstants
  PROVE  /\ "tail" \in All /\ "other" \in All /\ "tail" # "other"
         /\ \A x \in Name : x \in All /\ x # "tail" /\ x # "other"
         /\ "tail" \notin Name /\ "other" \notin Name
BY DEF SequenceConstants, All, Temporary

\* The sequences of the names, and nothing in the temporaries.
LEMMA FullFacts ==
  ASSUME SequenceConstants, NEW u \in [Name -> Seq(Elem)]
  PROVE  /\ Full(u) \in [All -> Seq(Elem)] /\ \A x \in Name : Full(u)[x] = u[x] /\ u[x] \in Seq(Elem)
         /\ Full(u)["tail"] = <<>> /\ Full(u)["other"] = <<>>
<1>1. PICK e \in Seq(Elem) : e = <<>>
  BY EmptyFacts
<1>2. Full(u) = [x \in All |-> IF x \in Name THEN u[x] ELSE e]
  BY <1>1 DEF Full
<1>3. \A x \in All : (IF x \in Name THEN u[x] ELSE e) \in Seq(Elem)
  BY <1>1
<1>4. Full(u) \in [All -> Seq(Elem)]
  BY <1>2, <1>3
<1>. QED
  BY <1>1, <1>2, <1>4, NameFacts

\* One of them changes.
LEMMA FullWith ==
  ASSUME SequenceConstants, NEW u \in [Name -> Seq(Elem)], NEW x \in Name, NEW q
  PROVE  With(Full(u), x, q) = Full([z \in Name |-> IF z = x THEN q ELSE u[z]])
<1>1. PICK e : e = <<>>
  OBVIOUS
<1>2. Full(u) = [z \in All |-> IF z \in Name THEN u[z] ELSE e]
  BY <1>1 DEF Full
<1>3. With(Full(u), x, q) = [z \in All |-> IF z = x THEN q ELSE IF z \in Name THEN u[z] ELSE e]
  BY <1>2 DEF With
<1>4. PICK f : f = [z \in Name |-> IF z = x THEN q ELSE u[z]]
  OBVIOUS
<1>5. Full(f) = [z \in All |-> IF z \in Name THEN f[z] ELSE e]
  BY <1>1 DEF Full
<1>6. ASSUME NEW z \in All
      PROVE  (IF z = x THEN q ELSE IF z \in Name THEN u[z] ELSE e) = IF z \in Name THEN f[z] ELSE e
  BY <1>4
<1>. QED
  BY <1>3, <1>4, <1>5, <1>6

WithTwo(u, x, a, y, b) == [z \in Name |-> IF z = y THEN b ELSE IF z = x THEN a ELSE u[z]]

\* Two of them change.
LEMMA FullBoth ==
  ASSUME SequenceConstants, NEW u \in [Name -> Seq(Elem)], NEW x \in Name, NEW y \in Name, NEW a, NEW b
  PROVE  Full(WithTwo(u, x, a, y, b)) = Both(Full(u), x, a, y, b)
<1>1. PICK e : e = <<>>
  OBVIOUS
<1>2. Full(u) = [z \in All |-> IF z \in Name THEN u[z] ELSE e]
  BY <1>1 DEF Full
<1>3. Both(Full(u), x, a, y, b) = [z \in All |-> IF z = y THEN b ELSE IF z = x THEN a ELSE IF z \in Name THEN u[z] ELSE e]
  BY <1>2 DEF Both, With
<1>4. PICK f : f = WithTwo(u, x, a, y, b)
  OBVIOUS
<1>5. Full(f) = [z \in All |-> IF z \in Name THEN f[z] ELSE e]
  BY <1>1 DEF Full
<1>6. ASSUME NEW z \in All
      PROVE  (IF z = y THEN b ELSE IF z = x THEN a ELSE IF z \in Name THEN u[z] ELSE e) = IF z \in Name THEN f[z] ELSE e
  BY <1>4 DEF WithTwo
<1>. QED
  BY <1>3, <1>4, <1>5, <1>6

\* A step leaves the memory that its operators made.
LEMMA BecomesMem ==
  ASSUME NEW m, Shape(m), NEW values, Becomes(m, values)
  PROVE  Mem' = m /\ val' = [x \in Name |-> IF x \in DOMAIN values THEN values[x] ELSE val[x]]
<1>1. heap' = m.heap /\ obj' = m.obj /\ alive' = m.alive
  BY DEF Becomes
<1>2. m = [heap |-> m.heap, obj |-> m.obj, alive |-> m.alive]
  BY DEF Shape
<1>. QED
  BY <1>1, <1>2 DEF Mem, Becomes

\* One sequence changes.
LEMMA OneBecomes ==
  ASSUME SequenceConstants, Rests(Mem, val), NEW x \in Name, NEW q \in Seq(Elem),
         NEW m, Sound(m, With(Full(val), x, q)), m.obj["tail"] = Empty, m.obj["other"] = Empty,
         Becomes(m, Only(x, q))
  PROVE  Rests(Mem, val)'
<1>1. val \in [Name -> Seq(Elem)]
  BY DEF Rests
<1>2. PICK f : f = [z \in Name |-> IF z = x THEN q ELSE val[z]]
  OBVIOUS
<1>3. f \in [Name -> Seq(Elem)]
  BY <1>1, <1>2
<1>4. Mem' = m /\ val' = [z \in Name |-> IF z \in DOMAIN Only(x, q) THEN Only(x, q)[z] ELSE val[z]]
  BY SoundFacts, BecomesMem
<1>5. val' = f
  <2>1. DOMAIN Only(x, q) = {x} /\ Only(x, q)[x] = q
    BY DEF Only
  <2>. QED
    BY <1>2, <1>4, <2>1
<1>6. Sound(m, Full(f))
  BY <1>1, <1>2, FullWith
<1>7. Rests(m, f)
  BY <1>3, <1>6 DEF Rests
<1>. QED
  BY <1>4, <1>5, <1>7 DEF Rests, Full

Two(x, a, y, b) == [z \in {x, y} |-> IF z = x THEN a ELSE b]

\* Two do.
LEMMA TwoBecome ==
  ASSUME SequenceConstants, Rests(Mem, val), NEW x \in Name, NEW y \in Name, x # y, NEW a \in Seq(Elem), NEW b \in Seq(Elem),
         NEW m, Sound(m, Both(Full(val), x, a, y, b)), m.obj["tail"] = Empty, m.obj["other"] = Empty,
         Becomes(m, Two(x, a, y, b))
  PROVE  Rests(Mem, val)'
<1>1. val \in [Name -> Seq(Elem)]
  BY DEF Rests
<1>2. PICK f : f = [z \in Name |-> IF z = y THEN b ELSE IF z = x THEN a ELSE val[z]]
  OBVIOUS
<1>3. f \in [Name -> Seq(Elem)]
  BY <1>1, <1>2
<1>8. PICK values : values = Two(x, a, y, b)
  OBVIOUS
<1>4. Mem' = m /\ val' = [z \in Name |-> IF z \in DOMAIN values THEN values[z] ELSE val[z]]
  BY <1>8, SoundFacts, BecomesMem
<1>5. val' = f
  <2>1. DOMAIN values = {x, y} /\ values[x] = a /\ values[y] = b
    BY <1>8 DEF Two
  <2>. QED
    BY <1>2, <1>4, <2>1
<1>6. Sound(m, Full(f))
  <2>1. f = WithTwo(val, x, a, y, b)
    BY <1>2 DEF WithTwo
  <2>2. Full(WithTwo(val, x, a, y, b)) = Both(Full(val), x, a, y, b)
    BY <1>1, FullBoth
  <2>. QED
    BY <2>1, <2>2
<1>7. Rests(m, f)
  BY <1>3, <1>6 DEF Rests
<1>. QED
  BY <1>4, <1>5, <1>7 DEF Rests, Full

\* An operation on x is done, or one step is all of it.
LEMMA DoneBecomes ==
  ASSUME SequenceConstants, Rests(Mem, val), NEW x \in Name, NEW q, NEW m, Done(Mem, Full(val), x, q, m),
         Becomes(m, Only(x, q))
  PROVE  Rests(Mem, val)'
<1>1. /\ q \in Seq(Elem) /\ Sound(m, With(Full(val), x, q)) /\ m.obj["tail"] = Empty
      /\ Others(Mem, m, {x, "tail"}) /\ Mem.obj["other"] = Empty
  BY DEF Done, Rests
<1>2. m.obj["other"] = Empty
  BY <1>1, NameFacts DEF Others
<1>. QED
  BY <1>1, <1>2, OneBecomes

\* Between operations every name is ready for one.
LEMMA IdleAtRest ==
  ASSUME SequenceConstants, NEW m, NEW u, Rests(m, u), NEW x \in Name
  PROVE  /\ Idle(m, Full(u), x) /\ Sound(m, Full(u)) /\ Full(u)[x] = u[x] /\ u[x] \in Seq(Elem) /\ x \in All
         /\ Size(m, x) = Len(u[x]) /\ Elements(m, x) = u[x]
<1>1. u \in [Name -> Seq(Elem)] /\ Sound(m, Full(u)) /\ Idle(m, Full(u), x) /\ x \in All
  BY NameFacts DEF Rests, Idle
<1>2. Full(u)[x] = u[x] /\ u[x] \in Seq(Elem)
  BY <1>1, FullFacts
<1>3. Size(m, x) = Len(Full(u)[x]) /\ Elements(m, x) = Full(u)[x]
  BY <1>1, SoundFacts, ObjectFacts
<1>. QED
  BY <1>1, <1>2, <1>3

\* A step of one object ends an operation.
LEMMA TurnsBecomes ==
  ASSUME SequenceConstants, Rests(Mem, val), NEW x \in Name, NEW q, NEW m, Turns(Mem, Full(val), x, q, m),
         Becomes(m, Only(x, q))
  PROVE  Rests(Mem, val)'
<1>1. Idle(Mem, Full(val), x)
  BY IdleAtRest
<1>2. Done(Mem, Full(val), x, q, m)
  BY <1>1, TurnsDone
<1>. QED
  BY <1>2, DoneBecomes

\* The operations that remove elements keep the invariant,
LEMMA ShrinkStep ==
  ASSUME SequenceConstants, Rests(Mem, val), NEW x \in Name, Shrink(x)
  PROVE  Rests(Mem, val)'
<1>0. /\ Idle(Mem, Full(val), x) /\ Sound(Mem, Full(val)) /\ Full(val)[x] = val[x] /\ val[x] \in Seq(Elem)
      /\ x \in All /\ Size(Mem, x) = Len(val[x])
  BY IdleAtRest
<1>1. PICK v, a : v = Full(val) /\ a = val[x]
  OBVIOUS
<1>2. Idle(Mem, v, x) /\ Sound(Mem, v) /\ v[x] = a /\ a \in Seq(Elem) /\ Len(a) \in Nat
  BY <1>0, <1>1
<1>3. ASSUME NEW q \in 0 .. Len(val[x]) - 1, Becomes(Erase(Mem, x, q), Only(x, RemoveAt(val[x], q + 1)))
      PROVE  Rests(Mem, val)'
  <2>1. q \in Nat /\ q < Len(v[x])
    BY <1>1, <1>2, <1>3
  <2>2. Done(Mem, v, x, RemoveAt(v[x], q + 1), Erase(Mem, x, q))
    BY <1>2, <2>1, EraseFacts
  <2>3. Done(Mem, Full(val), x, RemoveAt(val[x], q + 1), Erase(Mem, x, q))
    BY <1>1, <1>2, <2>2
  <2>. QED
    BY <1>3, <2>3, DoneBecomes
<1>4. ASSUME NEW q1 \in 0 .. Len(val[x]), NEW q2 \in q1 .. Len(val[x]),
             Becomes(EraseRange(Mem, x, q1, q2),
                     Only(x, SubSeq(val[x], 1, q1) \o SubSeq(val[x], q2 + 1, Len(val[x]))))
      PROVE  Rests(Mem, val)'
  <2>1. q1 \in Nat /\ q2 \in Nat /\ q1 <= q2 /\ q2 <= Len(v[x])
    BY <1>1, <1>2
  <2>2. Done(Mem, v, x, SubSeq(v[x], 1, q1) \o SubSeq(v[x], q2 + 1, Len(v[x])), EraseRange(Mem, x, q1, q2))
    BY <1>2, <2>1, EraseRangeFacts
  <2>3. Done(Mem, Full(val), x, SubSeq(val[x], 1, q1) \o SubSeq(val[x], q2 + 1, Len(val[x])), EraseRange(Mem, x, q1, q2))
    BY <1>1, <1>2, <2>2
  <2>. QED
    BY <1>4, <2>3, DoneBecomes
<1>5. ASSUME NEW n \in 0 .. Len(val[x]) - 1, NEW e \in Value,
             Becomes(Resize(Mem, x, n, e), Only(x, SubSeq(val[x], 1, n)))
      PROVE  Rests(Mem, val)'
  <2>1. n \in Nat /\ n < Len(v[x])
    BY <1>1, <1>2
  <2>2. Turns(Mem, v, x, SubSeq(v[x], 1, n), Resize(Mem, x, n, e))
    BY <1>0, <1>2, <2>1, SoundShrink
  <2>3. Turns(Mem, Full(val), x, SubSeq(val[x], 1, n), Resize(Mem, x, n, e))
    BY <1>1, <1>2, <2>2
  <2>. QED
    BY <1>5, <2>3, TurnsBecomes
<1>6. ASSUME val[x] # <<>>, Becomes(PopBack(Mem, x), Only(x, Front(val[x])))
      PROVE  Rests(Mem, val)'
  <2>1. Len(v[x]) > 0
    BY <1>1, <1>2, <1>6, EmptySeq
  <2>2. Turns(Mem, v, x, SubSeq(v[x], 1, Len(v[x]) - 1), PopBack(Mem, x))
    BY <1>0, <1>2, <2>1, SoundPopBack
  <2>3. Turns(Mem, Full(val), x, Front(val[x]), PopBack(Mem, x))
    BY <1>1, <1>2, <2>2 DEF Front
  <2>. QED
    BY <1>6, <2>3, TurnsBecomes
<1>7. ASSUME Becomes(ClearStorage(Mem, x), Only(x, <<>>))
      PROVE  Rests(Mem, val)'
  <2>1. Turns(Mem, Full(val), x, <<>>, ClearStorage(Mem, x))
    BY <1>0, SoundClear
  <2>. QED
    BY <1>7, <2>1, TurnsBecomes
<1>. QED
  BY <1>3, <1>4, <1>5, <1>6, <1>7 DEF Shrink

\* those that add some,
LEMMA GrowStep ==
  ASSUME SequenceConstants, Rests(Mem, val), NEW x \in Name, Grow(x)
  PROVE  Rests(Mem, val)'
<1>0. /\ Idle(Mem, Full(val), x) /\ Sound(Mem, Full(val)) /\ Full(val)[x] = val[x] /\ val[x] \in Seq(Elem)
      /\ x \in All /\ Size(Mem, x) = Len(val[x])
  BY IdleAtRest
<1>1. PICK v, a : v = Full(val) /\ a = val[x]
  OBVIOUS
<1>2. Idle(Mem, v, x) /\ Sound(Mem, v) /\ v[x] = a /\ a \in Seq(Elem) /\ Len(a) \in Nat
  BY <1>0, <1>1
<1>3. ASSUME NEW p \in 0 .. Len(val[x]), NEW e \in Value,
             Becomes(Emplace(Mem, x, p, e), Only(x, InsertAt(val[x], p + 1, e)))
      PROVE  Rests(Mem, val)'
  <2>1. p \in Nat /\ p <= Len(v[x]) /\ e \in Elem
    BY <1>1, <1>2 DEF Elem
  <2>2. Done(Mem, v, x, InsertAt(v[x], p + 1, e), Emplace(Mem, x, p, e))
    BY <1>2, <2>1, EmplaceFacts
  <2>3. Done(Mem, Full(val), x, InsertAt(val[x], p + 1, e), Emplace(Mem, x, p, e))
    BY <1>1, <1>2, <2>2
  <2>. QED
    BY <1>3, <2>3, DoneBecomes
<1>4. ASSUME NEW p \in 0 .. Len(val[x]), NEW e \in Value,
             Becomes(InsertN(Mem, x, p, <<e, e>>), Only(x, InsertAt(InsertAt(val[x], p + 1, e), p + 1, e)))
      PROVE  Rests(Mem, val)'
  <2>1. p \in Nat /\ p <= Len(v[x]) /\ e \in Elem
    BY <1>1, <1>2 DEF Elem
  <2>2. Done(Mem, v, x, InsertAt(InsertAt(v[x], p + 1, e), p + 1, e), InsertN(Mem, x, p, <<e, e>>))
    BY <1>2, <2>1, InsertNFacts
  <2>3. Done(Mem, Full(val), x, InsertAt(InsertAt(val[x], p + 1, e), p + 1, e), InsertN(Mem, x, p, <<e, e>>))
    BY <1>1, <1>2, <2>2
  <2>. QED
    BY <1>4, <2>3, DoneBecomes
<1>5. ASSUME NEW p \in 0 .. Len(val[x]), NEW y \in Name \ {x},
             Becomes(InsertRange(Mem, x, p, Elements(Mem, y)),
                     Only(x, SubSeq(val[x], 1, p) \o val[y] \o SubSeq(val[x], p + 1, Len(val[x]))))
      PROVE  Rests(Mem, val)'
  <2>1. p \in Nat /\ p <= Len(v[x])
    BY <1>1, <1>2
  <2>2. Elements(Mem, y) = val[y] /\ val[y] \in Seq(Elem)
    BY IdleAtRest
  <2>3. PICK q \in Seq(Elem) : q = val[y]
    BY <2>2
  <2>4. Done(Mem, v, x, (SubSeq(v[x], 1, p) \o q) \o SubSeq(v[x], p + 1, Len(v[x])), InsertRange(Mem, x, p, q))
    BY <1>2, <2>1, InsertRangeFacts
  <2>5. PICK r : r = (SubSeq(val[x], 1, p) \o val[y]) \o SubSeq(val[x], p + 1, Len(val[x]))
    OBVIOUS
  <2>6. Done(Mem, Full(val), x, r, InsertRange(Mem, x, p, q))
    BY <1>1, <1>2, <2>3, <2>4, <2>5
  <2>7. Becomes(InsertRange(Mem, x, p, q), Only(x, r))
    BY <1>5, <2>2, <2>3, <2>5
  <2>. QED
    BY <2>6, <2>7, DoneBecomes
<1>6. ASSUME NEW n \in 1 .. MaxLen, n \in Nat, Becomes(EnsureCapacity(Mem, x, n), Only(x, val[x]))
      PROVE  Rests(Mem, val)'
  <2>1. PICK m : m = EnsureCapacity(Mem, x, n)
    OBVIOUS
  <2>2. Sound(m, v) /\ Others(Mem, m, {x})
    BY <1>0, <1>2, <1>6, <2>1, SoundEnsure
  <2>3. With(v, x, a) = v
    BY <1>0, <1>2, SoundFacts, WithFacts
  <2>4. Turns(Mem, v, x, a, m)
    BY <1>2, <2>2, <2>3 DEF Turns
  <2>. QED
    BY <1>1, <1>6, <2>1, <2>4, TurnsBecomes
<1>7. ASSUME NEW n \in Len(val[x]) .. MaxLen, NEW e \in Value,
             Becomes(Resize(Mem, x, n, e), Only(x, val[x] \o [i \in 1 .. n - Len(val[x]) |-> e]))
      PROVE  Rests(Mem, val)'
  <2>1. n \in Nat /\ n >= Len(v[x]) /\ e \in Elem
    BY <1>1, <1>2 DEF Elem
  <2>2. Turns(Mem, v, x, v[x] \o Copies(n - Len(v[x]), e), Resize(Mem, x, n, e))
    BY <1>0, <1>2, <2>1, SoundExtend
  <2>3. PICK r : r = val[x] \o [i \in 1 .. n - Len(val[x]) |-> e]
    OBVIOUS
  <2>4. Turns(Mem, Full(val), x, r, Resize(Mem, x, n, e))
    BY <1>1, <1>2, <2>2, <2>3 DEF Copies
  <2>. QED
    BY <1>7, <2>3, <2>4, TurnsBecomes
<1>8. \A n \in 1 .. MaxLen : n \in Nat
  OBVIOUS
<1>. QED
  BY <1>3, <1>4, <1>5, <1>6, <1>7, <1>8 DEF Grow

\* those that make a new object,
LEMMA BuildStep ==
  ASSUME SequenceConstants, Rests(Mem, val), NEW x \in Name, Build(x)
  PROVE  Rests(Mem, val)'
<1>0. /\ Sound(Mem, Full(val)) /\ x \in All /\ val \in [Name -> Seq(Elem)]
      /\ Mem.obj["tail"] = Empty /\ Mem.obj["other"] = Empty
      /\ Full(val) \in [All -> Seq(Elem)] /\ x # "tail" /\ x # "other" /\ "tail" \in All /\ "other" \in All
  BY IdleAtRest, NameFacts, FullFacts DEF Rests
<1>1. PICK v, m : v = Full(val) /\ m = ClearStorage(Mem, x)
  OBVIOUS
<1>2. v \in [All -> Seq(Elem)]
  BY <1>0, <1>1
<1>3. PICK w : w = With(v, x, <<>>)
  OBVIOUS
<1>4. Sound(m, w) /\ m.obj[x] = Empty /\ Others(Mem, m, {x})
  <2>1. Turns(Mem, v, x, <<>>, m) /\ m.obj[x] = Empty
    BY <1>0, <1>1, SoundClear
  <2>. QED
    BY <1>3, <2>1 DEF Turns
<1>5. m.obj["tail"] = Empty /\ m.obj["other"] = Empty
  BY <1>0, <1>4 DEF Others
<1>6. w \in [All -> Seq(Elem)] /\ \A y \in Name \ {x} : y \in All /\ w[y] = val[y] /\ val[y] \in Seq(Elem)
  <2>1. PICK e \in Seq(Elem) : e = <<>>
    BY EmptyFacts
  <2>2. w \in [All -> Seq(Elem)]
    BY <1>0, <1>2, <1>3, <2>1, WithFacts
  <2>3. w = [v EXCEPT ![x] = e]
    BY <1>3, <2>1 DEF With
  <2>4. \A y \in Name \ {x} : y \in All /\ v[y] = val[y] /\ val[y] \in Seq(Elem)
    BY <1>0, <1>1, FullFacts, NameFacts
  <2>. QED
    BY <1>2, <2>2, <2>3, <2>4
<1>7. ASSUME NEW q \in Seq(Elem) PROVE With(w, x, q) = With(v, x, q)
  BY <1>3 DEF With
<1>8. ASSUME NEW q, NEW M, Turns(m, w, x, q, M), Becomes(M, Only(x, q))
      PROVE  Rests(Mem, val)'
  <2>1. q \in Seq(Elem) /\ Sound(M, With(w, x, q)) /\ Others(m, M, {x})
    BY <1>8 DEF Turns
  <2>2. Sound(M, With(Full(val), x, q))
    BY <1>1, <1>7, <2>1
  <2>3. M.obj["tail"] = Empty /\ M.obj["other"] = Empty
    BY <1>0, <1>5, <2>1 DEF Others
  <2>. QED
    BY <1>8, <2>1, <2>2, <2>3, OneBecomes
<1>9. ASSUME NEW y \in Name \ {x}, NEW M, Sound(M, Both(w, x, w[y], y, <<>>)), Others(m, M, {x, y}),
             NEW values, values = [z \in {x, y} |-> IF z = x THEN val[y] ELSE <<>>], Becomes(M, values)
      PROVE  Rests(Mem, val)'
  <2>1. PICK b \in Seq(Elem), e \in Seq(Elem) : b = val[y] /\ e = <<>>
    BY <1>6, EmptyFacts
  <2>2. With(w, x, b) = With(v, x, b)
    BY <1>7
  <2>3. Both(w, x, w[y], y, <<>>) = Both(v, x, b, y, e)
    BY <1>6, <2>1, <2>2 DEF Both
  <2>4. Sound(M, Both(Full(val), x, b, y, e))
    BY <1>1, <1>9, <2>3
  <2>5. y # "tail" /\ y # "other"
    BY NameFacts
  <2>6. M.obj["tail"] = Empty /\ M.obj["other"] = Empty
    BY <1>0, <1>5, <1>9, <2>5 DEF Others
  <2>7. Becomes(M, Two(x, b, y, e))
    BY <1>9, <2>1 DEF Two
  <2>. QED
    BY <2>4, <2>6, <2>7, TwoBecome
<1>10. ASSUME NEW n \in 1 .. 2, NEW e \in Value, Becomes(Initialize(m, x, Copies(n, e)), Only(x, Copies(n, e)))
       PROVE  Rests(Mem, val)'
  <2>1. n \in Nat /\ e \in Elem
    BY DEF Elem
  <2>2. PICK q : q = Copies(n, e)
    OBVIOUS
  <2>3. q \in Seq(Elem)
    BY <2>1, <2>2, CopiesFacts
  <2>4. Turns(m, w, x, q, Initialize(m, x, q))
    BY <1>0, <1>4, <2>3, SoundInitialize
  <2>. QED
    BY <1>8, <1>10, <2>2, <2>4
<1>11. ASSUME NEW y \in Name \ {x}, Becomes(Copy(m, x, y), Only(x, val[y]))
       PROVE  Rests(Mem, val)'
  <2>1. Turns(m, w, x, w[y], Copy(m, x, y))
    BY <1>0, <1>4, <1>6, SoundCopy
  <2>. QED
    BY <1>6, <1>8, <1>11, <2>1
<1>12. ASSUME NEW y \in Name \ {x},
              Becomes(MoveFrom(m, x, y), [z \in {x, y} |-> IF z = x THEN val[y] ELSE <<>>])
       PROVE  Rests(Mem, val)'
  <2>1. PICK M : M = MoveFrom(m, x, y)
    OBVIOUS
  <2>2. Sound(M, Both(w, x, w[y], y, <<>>)) /\ Others(m, M, {x, y})
    BY <1>0, <1>4, <1>6, <2>1, SoundMoveFrom
  <2>. QED
    BY <1>9, <1>12, <2>1, <2>2
<1>13. ASSUME NEW y \in Name \ {x},
              Becomes(RelocateN(m, x, y), [z \in {x, y} |-> IF z = x THEN val[y] ELSE <<>>])
       PROVE  Rests(Mem, val)'
  <2>1. PICK M : M = RelocateN(m, x, y)
    OBVIOUS
  <2>2. Sound(M, Both(w, x, w[y], y, <<>>)) /\ Others(m, M, {x, y})
    BY <1>0, <1>4, <1>6, <2>1, SoundRelocate
  <2>. QED
    BY <1>9, <1>13, <2>1, <2>2
<1>. QED
  BY <1>1, <1>10, <1>11, <1>12, <1>13 DEF Build, Copies

\* and those of two objects.
LEMMA ExchangeStep ==
  ASSUME SequenceConstants, Rests(Mem, val), NEW x \in Name, NEW y \in Name, Trade(x, y)
  PROVE  Rests(Mem, val)'
<1>0. /\ Sound(Mem, Full(val)) /\ x \in All /\ y \in All /\ val \in [Name -> Seq(Elem)]
      /\ Mem.obj["tail"] = Empty /\ Mem.obj["other"] = Empty
      /\ Full(val) \in [All -> Seq(Elem)] /\ Full(val)["other"] = <<>>
  BY IdleAtRest, NameFacts, FullFacts DEF Rests
<1>1. PICK o, t : /\ o = "other" /\ t = "tail" /\ o \in All /\ t \in All /\ t # o
                  /\ x # o /\ y # o /\ x # t /\ y # t
  BY NameFacts
<1>2. PICK v : v = Full(val)
  OBVIOUS
<1>3. PICK a \in Seq(Elem), b \in Seq(Elem), e \in Seq(Elem) :
         a = val[x] /\ b = val[y] /\ e = <<>> /\ v[x] = a /\ v[y] = b
  BY <1>0, <1>2, FullFacts, EmptyFacts
<1>4. v \in [All -> Seq(Elem)] /\ Sound(Mem, v) /\ v[o] = e
  BY <1>0, <1>1, <1>2, <1>3
<1>5. ASSUME Becomes(Assign(Copy(Mem, "other", y), x), Only(x, val[y]))
      PROVE  Rests(Mem, val)'
  <2>1. PICK M, w, M2 : M = Copy(Mem, o, y) /\ w = With(v, o, b) /\ M2 = Assign(M, x)
    OBVIOUS
  <2>2. Turns(Mem, v, o, v[y], M)
    BY <1>0, <1>1, <1>4, <2>1, SoundCopy
  <2>3. Sound(M, w) /\ Others(Mem, M, {o})
    BY <1>3, <2>1, <2>2 DEF Turns
  <2>4. Sound(M2, Both(w, x, w["other"], "other", <<>>)) /\ Others(M, M2, {x, "other"}) /\ M2.obj["other"] = Empty
    <3>1. Assigned(M, w, x, M2)
      BY <1>0, <1>1, <2>1, <2>3, SoundAssign
    <3>. QED
      BY <3>1 DEF Assigned
  <2>5. w = [z \in All |-> IF z = o THEN b ELSE v[z]] /\ w[o] = b
    BY <1>1, <1>4, <2>1 DEF With
  <2>6. Both(w, x, b, o, e) = With(v, x, b)
    <3>1. Both(w, x, b, o, e) = [z \in All |-> IF z = o THEN e ELSE IF z = x THEN b ELSE w[z]]
      BY <2>5 DEF Both, With
    <3>2. With(v, x, b) = [z \in All |-> IF z = x THEN b ELSE v[z]]
      BY <1>4 DEF With
    <3>3. ASSUME NEW z \in All
          PROVE  (IF z = o THEN e ELSE IF z = x THEN b ELSE w[z]) = IF z = x THEN b ELSE v[z]
      BY <1>1, <1>4, <2>5
    <3>. QED
      BY <3>1, <3>2, <3>3
  <2>7. Sound(M2, With(Full(val), x, b)) /\ M2.obj["other"] = Empty
    BY <1>1, <1>2, <1>3, <2>4, <2>5, <2>6
  <2>8. M2.obj["tail"] = Empty
    BY <1>0, <1>1, <2>3, <2>4 DEF Others
  <2>9. Becomes(M2, Only(x, b))
    BY <1>1, <1>3, <1>5, <2>1
  <2>. QED
    BY <2>7, <2>8, <2>9, OneBecomes
<1>6. ASSUME x # y, Becomes(Assign(MoveFrom(Mem, "other", y), x), [z \in {x, y} |-> IF z = x THEN val[y] ELSE <<>>])
      PROVE  Rests(Mem, val)'
  <2>1. PICK M, w, M2 : M = MoveFrom(Mem, o, y) /\ w = Both(v, o, v[y], y, <<>>) /\ M2 = Assign(M, x)
    OBVIOUS
  <2>2. Sound(M, w) /\ Others(Mem, M, {o, y})
    BY <1>0, <1>1, <1>4, <2>1, SoundMoveFrom
  <2>3. Sound(M2, Both(w, x, w["other"], "other", <<>>)) /\ Others(M, M2, {x, "other"}) /\ M2.obj["other"] = Empty
    <3>1. Assigned(M, w, x, M2)
      BY <1>0, <1>1, <2>1, <2>2, SoundAssign
    <3>. QED
      BY <3>1 DEF Assigned
  <2>4. w = [z \in All |-> IF z = y THEN e ELSE IF z = o THEN b ELSE v[z]] /\ w[o] = b
    <3>1. w = [z \in All |-> IF z = y THEN e ELSE IF z = o THEN b ELSE v[z]]
      BY <1>1, <1>3, <1>4, <2>1 DEF Both, With
    <3>. QED
      BY <1>1, <3>1
  <2>5. Both(w, x, b, o, e) = Both(v, x, b, y, e)
    <3>1. Both(w, x, b, o, e) = [z \in All |-> IF z = o THEN e ELSE IF z = x THEN b ELSE w[z]]
      BY <2>4 DEF Both, With
    <3>2. Both(v, x, b, y, e) = [z \in All |-> IF z = y THEN e ELSE IF z = x THEN b ELSE v[z]]
      BY <1>4 DEF Both, With
    <3>3. ASSUME NEW z \in All
          PROVE  (IF z = o THEN e ELSE IF z = x THEN b ELSE w[z]) = IF z = y THEN e ELSE IF z = x THEN b ELSE v[z]
      BY <1>1, <1>4, <1>6, <2>4
    <3>. QED
      BY <3>1, <3>2, <3>3
  <2>6. Sound(M2, Both(Full(val), x, b, y, e)) /\ M2.obj["other"] = Empty
    BY <1>1, <1>2, <1>3, <2>3, <2>4, <2>5
  <2>7. M2.obj["tail"] = Empty
    BY <1>0, <1>1, <2>2, <2>3 DEF Others
  <2>8. Becomes(M2, Two(x, b, y, e))
    BY <1>1, <1>3, <1>6, <2>1 DEF Two
  <2>. QED
    BY <1>6, <2>6, <2>7, <2>8, TwoBecome
<1>7. ASSUME x # y, Becomes(Swap(Mem, x, y), [z \in {x, y} |-> IF z = x THEN val[y] ELSE val[x]])
      PROVE  Rests(Mem, val)'
  <2>1. PICK M : M = Swap(Mem, x, y)
    OBVIOUS
  <2>2. Exchanged(Mem, v, x, y, M)
    BY <1>0, <1>4, <1>7, <2>1, SoundSwap
  <2>3. Sound(M, Both(Full(val), x, b, y, a)) /\ Others(Mem, M, {x, y})
    BY <1>2, <1>3, <2>2 DEF Exchanged
  <2>4. M.obj["tail"] = Empty /\ M.obj["other"] = Empty
    BY <1>0, <1>1, <2>3 DEF Others
  <2>5. Becomes(M, Two(x, b, y, a))
    BY <1>3, <1>7, <2>1 DEF Two
  <2>. QED
    BY <1>7, <2>3, <2>4, <2>5, TwoBecome
<1>8. ASSUME x # y,
             Becomes(AppendMoved(Mem, x, y),
                     LET taken == Size(Mem, x) = 0 /\ Capacity(Mem, x) <= Size(Mem, y) IN
                     [z \in {x, y} |-> IF z = x THEN val[x] \o val[y]
                                       ELSE IF taken THEN <<>> ELSE Left(val[y])])
      PROVE  Rests(Mem, val)'
  <2>1. PICK M, r : /\ M = AppendMoved(Mem, x, y)
                    /\ r = IF Size(Mem, x) = 0 /\ Capacity(Mem, x) <= Size(Mem, y) THEN <<>> ELSE Left(val[y])
    OBVIOUS
  <2>2. AppendedMoved(Mem, v, x, y, M)
    BY <1>0, <1>4, <1>8, <2>1, AppendMovedFacts
  <2>3. PICK s \in Seq(Elem) : s = a \o b
    <3>1. a \o b \in Seq(Elem)
      BY <1>3
    <3>. QED
      BY <3>1
  <2>4. Sound(M, Both(Full(val), x, s, y, r)) /\ Others(Mem, M, {x, y})
    BY <1>2, <1>3, <2>1, <2>2, <2>3 DEF AppendedMoved
  <2>5. r \in Seq(Elem)
    <3>1. Left(b) \in Seq(Elem)
      BY <1>3 DEF Left, Elem
    <3>. QED
      BY <1>3, <2>1, <3>1
  <2>6. M.obj["tail"] = Empty /\ M.obj["other"] = Empty
    BY <1>0, <1>1, <2>4 DEF Others
  <2>7. Becomes(M, Two(x, s, y, r))
    BY <1>3, <1>8, <2>1, <2>3 DEF Two
  <2>. QED
    BY <1>8, <2>4, <2>5, <2>6, <2>7, TwoBecome
<1>. QED
  BY <1>5, <1>6, <1>7, <1>8 DEF Trade

\* compare_equal, by blocks of doubling lengths, is equality.
LEMMA EqualFacts ==
  ASSUME SequenceConstants, NEW m, NEW x, NEW y, NEW a \in Seq(Elem), NEW b \in Seq(Elem),
         Elements(m, x) = a, Elements(m, y) = b
  PROVE  Equal(m, x, y) <=> a = b
<1>0. PICK n \in Nat, G \in Nat : n = Len(a) /\ G = Granularity /\ G > 0
  BY ConstantFacts
<1> DEFINE SameUpTo(from, k) == \A j \in from + 1 .. (IF k <= Len(a) THEN k ELSE Len(a)) : a[j] = b[j]
           IsScan(h) == h = [start \in Nat |->
                                \/ start >= Len(a)
                                \/ SameUpTo(start, 2 * start + Granularity) /\ h[2 * start + Granularity]]
           SameFrom(s) == \A j \in s + 1 .. n : a[j] = b[j]
           g == [s \in Nat |-> SameFrom(s)]
<1>1. ASSUME NEW s \in Nat, s < n
      PROVE  SameFrom(s) <=> SameUpTo(s, 2 * s + G) /\ SameFrom(2 * s + G)
  <2>1. 2 * s + G \in Nat /\ 2 * s + G > s
    BY <1>0
  <2>2. PICK e \in Nat : e = 2 * s + G /\ e > s
    BY <2>1
  <2>3. (\A j \in s + 1 .. n : a[j] = b[j]) <=>
           /\ \A j \in s + 1 .. (IF e <= n THEN e ELSE n) : a[j] = b[j]
           /\ \A j \in e + 1 .. n : a[j] = b[j]
    <3>1. \A j \in s + 1 .. n : j \in s + 1 .. (IF e <= n THEN e ELSE n) \/ j \in e + 1 .. n
      BY <2>2
    <3>2. \A j \in s + 1 .. (IF e <= n THEN e ELSE n) : j \in s + 1 .. n
      BY <2>2
    <3>3. \A j \in e + 1 .. n : j \in s + 1 .. n
      BY <2>2
    <3>. QED
      BY <3>1, <3>2, <3>3
  <2>. QED
    BY <1>0, <2>2, <2>3
<1>2. \E h : IsScan(h)
  <2>1. PICK h : h = g
    OBVIOUS
  <2>2. ASSUME NEW s \in Nat
        PROVE  SameFrom(s) <=> s >= Len(a) \/ (SameUpTo(s, 2 * s + Granularity) /\ h[2 * s + Granularity])
    <3>1. 2 * s + G \in Nat
      BY <1>0
    <3>2. h[2 * s + G] <=> SameFrom(2 * s + G)
      BY <2>1, <3>1
    <3>3. CASE s >= n
      BY <1>0, <3>3
    <3>4. CASE s < n
      <4> HIDE DEF SameUpTo, SameFrom, g
      <4>1. ~ (s >= Len(a))
        BY <1>0, <3>4
      <4>. QED
        BY <1>0, <1>1, <3>2, <3>4, <4>1
    <3>. QED
      BY <1>0, <3>3, <3>4
  <2>3. h = [s \in Nat |-> SameFrom(s)]
    BY <2>1
  <2>4. h = [s \in Nat |-> s >= Len(a) \/ (SameUpTo(s, 2 * s + Granularity) /\ h[2 * s + Granularity])]
    <3> DEFINE Turn(s) == s >= Len(a) \/ (SameUpTo(s, 2 * s + Granularity) /\ h[2 * s + Granularity])
    <3>1. \A s \in Nat : SameFrom(s) <=> Turn(s)
      BY <2>2
    <3>2. \A s \in Nat : SameFrom(s) = Turn(s)
      <4> HIDE DEF SameFrom, Turn
      <4>1. TAKE s \in Nat
      <4>2. SameFrom(s) <=> Turn(s)
        BY <3>1
      <4>3. SameFrom(s) \in BOOLEAN /\ Turn(s) \in BOOLEAN
        BY DEF SameFrom, Turn
      <4>. QED
        BY <4>2, <4>3
    <3>3. [s \in Nat |-> SameFrom(s)] = [s \in Nat |-> Turn(s)]
      <4> HIDE DEF SameFrom, Turn
      <4>. QED
        BY <3>2, Zenon
    <3>. QED
      BY <2>3, <3>3
  <2>. QED
    BY <2>4
<1>3. PICK f : f = CHOOSE h : IsScan(h)
  OBVIOUS
<1>4. Equal(m, x, y) <=> Len(a) = Len(b) /\ SameUpTo(0, Granularity) /\ f[Granularity]
  BY <1>3 DEF Equal
<1>5. IsScan(f)
  BY <1>2, <1>3
<1>6. \A s \in Nat : f[s] <=> (s >= n \/ (SameUpTo(s, 2 * s + G) /\ f[2 * s + G]))
  BY <1>0, <1>5
<1> HIDE DEF g, IsScan, SameUpTo, SameFrom
<1>7. ASSUME NEW s \in Nat PROVE f[s] <=> SameFrom(s)
  <2> DEFINE T == {k \in 0 .. n : \E r \in Nat : ~ (f[r] <=> SameFrom(r)) /\ k = IF r >= n THEN 0 ELSE n - r}
  <2>1. SUFFICES ASSUME ~ (f[s] <=> SameFrom(s)) PROVE FALSE
    OBVIOUS
  <2>2. T # {} /\ T \in SUBSET Nat
    <3>1. PICK k \in 0 .. n : k = IF s >= n THEN 0 ELSE n - s
      <4>1. (IF s >= n THEN 0 ELSE n - s) \in 0 .. n
        BY <1>0
      <4>. QED
        BY <4>1
    <3>2. k \in T
      BY <2>1, <3>1
    <3>3. \A l \in T : l \in Nat
      <4>1. TAKE l \in T
      <4>2. l \in 0 .. n
        OBVIOUS
      <4>. QED
        BY <4>2
    <3> HIDE DEF T
    <3>. QED
      BY <3>2, <3>3
  <2>3. PICK k \in T : \A l \in T : k <= l
    BY <2>2, LeastNat
  <2>4. PICK r \in Nat : ~ (f[r] <=> SameFrom(r)) /\ k = IF r >= n THEN 0 ELSE n - r
    OBVIOUS
  <2>5. r < n
    <3>1. SUFFICES ASSUME r >= n PROVE FALSE
      BY <2>4
    <3>2. f[r]
      BY <1>6, <3>1
    <3>3. SameFrom(r)
      BY <3>1 DEF SameFrom
    <3>. QED
      BY <2>4, <3>2, <3>3
  <2>6. PICK e \in Nat : e = 2 * r + G /\ e > r
    BY <1>0
  <2>7. ~ (f[e] <=> SameFrom(e))
    <3>1. f[r] <=> SameUpTo(r, e) /\ f[e]
      BY <1>6, <2>5, <2>6
    <3>2. SameFrom(r) <=> SameUpTo(r, e) /\ SameFrom(e)
      BY <1>1, <2>5, <2>6
    <3>. QED
      BY <2>4, <3>1, <3>2
  <2>8. PICK l : l = IF e >= n THEN 0 ELSE n - e
    OBVIOUS
  <2>9. l \in T
    BY <2>6, <2>7, <2>8
  <2>10. l < k
    BY <2>4, <2>5, <2>6, <2>8
  <2> HIDE DEF T
  <2>11. k <= l /\ k \in Nat /\ l \in Nat
    BY <2>2, <2>3, <2>9
  <2>. QED
    BY <2>10, <2>11
<1>8. Equal(m, x, y) <=> Len(a) = Len(b) /\ SameUpTo(0, G) /\ SameFrom(G)
  BY <1>0, <1>4, <1>7
<1>9. SameUpTo(0, G) /\ SameFrom(G) <=> SameFrom(0)
  <2>1. CASE n > 0
    <3>1. 2 * 0 + G = G
      BY <1>0
    <3>. QED
      BY <1>1, <2>1, <3>1
  <2>2. CASE n = 0
    BY <1>0, <2>2 DEF SameUpTo, SameFrom
  <2>. QED
    BY <1>0, <2>1, <2>2
<1>10. Len(a) = Len(b) /\ SameFrom(0) <=> a = b
  <2>1. ASSUME Len(a) = Len(b), SameFrom(0) PROVE a = b
    <3>1. \A j \in 1 .. Len(a) : a[j] = b[j]
      BY <1>0, <2>1 DEF SameFrom
    <3>. QED
      BY <2>1, <3>1, SeqEqual
  <2>2. ASSUME a = b PROVE Len(a) = Len(b) /\ SameFrom(0)
    BY <2>2 DEF SameFrom
  <2>. QED
    BY <2>1, <2>2
<1>. QED
  BY <1>8, <1>9, <1>10

\* Before any operation every object is empty.
LEMMA InitRests ==
  ASSUME SequenceConstants, SeqInit
  PROVE  Rests(Mem, val)
<1>1. PICK e \in Seq(Elem) : e = <<>> /\ Len(e) = 0
  BY EmptyFacts
<1>2. val = [x \in Name |-> e]
  BY <1>1 DEF SeqInit
<1>3. val \in [Name -> Seq(Elem)]
  BY <1>2
<1>4. PICK v : v = Full(val)
  OBVIOUS
<1>5. v \in [All -> Seq(Elem)] /\ \A x \in All : v[x] = e
  <2>1. v = [x \in All |-> IF x \in Name THEN val[x] ELSE e]
    BY <1>1, <1>4 DEF Full
  <2>. QED
    BY <1>2, <2>1
<1>6. PICK m : m = Mem
  OBVIOUS
<1>7. m.heap = [b \in Buffer |-> Released] /\ m.obj = [x \in All |-> Empty] /\ m.alive = 0
      /\ m = [heap |-> m.heap, obj |-> m.obj, alive |-> m.alive]
  BY <1>6 DEF SeqInit, Mem, All
<1>8. Keeps(m, v)
  <2>1. Shape(m)
    BY <1>7 DEF Shape
  <2>2. \A x \in All : m.obj[x] = Empty
    BY <1>7
  <2>3. \A x \in All : Holds(m, x, v[x])
    <3>1. TAKE x \in All
    <3>2. Holds(m, x, <<>>)
      BY <2>2, EmptyFacts
    <3>. QED
      BY <1>1, <1>5, <3>2
  <2>4. \A x \in All : m.obj[x].buf \notin Buffer
    BY <2>2, EmptyFacts, ConstantFacts
  <2>5. \A b \in Buffer : m.heap[b] = Released
    BY <1>7
  <2>. QED
    BY <1>5, <2>1, <2>3, <2>4, <2>5 DEF Keeps
<1>9. Total(v) = 0
  <2>1. \A x \in All : Elements_(v, x) = {}
    BY <1>1, <1>5 DEF Elements_
  <2>2. Slots(v, All) = {}
    BY <2>1 DEF Slots
  <2>. QED
    BY <2>2, FS_EmptySet DEF Total
<1>10. Sound(m, v)
  BY <1>7, <1>8, <1>9 DEF Sound
<1>11. m.obj["tail"] = Empty /\ m.obj["other"] = Empty
  BY <1>7, NameFacts
<1>. QED
  BY <1>3, <1>4, <1>6, <1>10, <1>11 DEF Rests

\* No step breaks the invariant.
LEMMA NextRests ==
  ASSUME SequenceConstants, Rests(Mem, val), [SeqNext]_seqVars
  PROVE  Rests(Mem, val)'
<1>1. CASE SeqNext
  <2>1. ASSUME NEW x \in Name, Build(x) PROVE Rests(Mem, val)'
    BY <2>1, BuildStep
  <2>2. ASSUME NEW x \in Name, Grow(x) PROVE Rests(Mem, val)'
    BY <2>2, GrowStep
  <2>3. ASSUME NEW x \in Name, Shrink(x) PROVE Rests(Mem, val)'
    BY <2>3, ShrinkStep
  <2>4. ASSUME NEW x \in Name, NEW y \in Name, Trade(x, y) PROVE Rests(Mem, val)'
    BY <2>4, ExchangeStep
  <2>. QED
    BY <1>1, <2>1, <2>2, <2>3, <2>4 DEF SeqNext
<1>2. CASE UNCHANGED seqVars
  <2>1. Mem' = Mem /\ val' = val
    BY <1>2 DEF seqVars, Mem
  <2>. QED
    BY <2>1 DEF Rests, Full
<1>. QED
  BY <1>1, <1>2

\* Every buffer in use has one owner.
LEMMA OwnerFacts ==
  ASSUME SequenceConstants, NEW m, NEW u, Rests(m, u), NEW b \in Buffer
  PROVE  Cardinality({x \in Name : ~IsSmall(m, x) /\ m.obj[x].buf = b}) = IF m.heap[b].used THEN 1 ELSE 0
<1>1. PICK v : v = Full(u) /\ Keeps(m, v)
  BY SoundFacts DEF Rests
<1>2. ASSUME NEW x \in All, m.obj[x].buf = b
      PROVE  m.heap[b].used /\ ~IsSmall(m, x) /\ x \in Name
  <2>1. Holds(m, x, v[x]) /\ v[x] \in Seq(Elem)
    BY <1>1 DEF Keeps
  <2>2. ~IsInside(m, x, v[x])
    BY <1>2, <2>1, InsideFacts, ConstantFacts
  <2>3. PICK d \in Buffer, c \in Nat : IsOutside(m, x, v[x], d, c)
    BY <2>1, <2>2 DEF Holds
  <2>4. ~IsSmall(m, x) /\ m.obj[x].buf = d
    <3>1. ReadOutside(m, x, v[x], d, c)
      BY <1>1, <2>3, OutsideOf
    <3>. QED
      BY <3>1 DEF ReadOutside
  <2>5. m.heap[b].used
    BY <1>2, <2>3, <2>4, ReleasedFacts DEF IsOutside
  <2>6. x # "tail" /\ x # "other"
    BY <1>2, EmptyFacts, ConstantFacts DEF Rests
  <2>. QED
    BY <2>4, <2>5, <2>6 DEF All, Temporary
<1>3. PICK S : S = {x \in Name : ~IsSmall(m, x) /\ m.obj[x].buf = b}
  OBVIOUS
<1>4. CASE m.heap[b].used
  <2>1. m.heap[b] # Released
    BY <1>4, ReleasedFacts
  <2>2. PICK x \in All : m.obj[x].buf = b
    BY <1>1, <2>1 DEF Keeps
  <2>3. x \in S
    BY <1>2, <1>3, <2>2
  <2>4. \A y \in S : y = x
    <3>1. TAKE y \in S
    <3>2. y \in All /\ m.obj[y].buf = b
      BY <1>3 DEF All
    <3>. QED
      BY <1>1, <2>2, <3>2 DEF Keeps
  <2>5. S = {x}
    BY <2>3, <2>4
  <2>6. Cardinality(S) = 1
    BY <2>5, FS_Singleton
  <2>. QED
    BY <1>3, <1>4, <2>6
<1>5. CASE ~m.heap[b].used
  <2>1. \A x \in S : FALSE
    <3>1. TAKE x \in S
    <3>2. x \in All /\ m.obj[x].buf = b
      BY <1>3 DEF All
    <3>. QED
      BY <1>2, <1>5, <3>2
  <2>2. Cardinality(S) = 0
    BY <2>1, FS_EmptySet
  <2>. QED
    BY <1>3, <1>5, <2>2
<1>. QED
  BY <1>4, <1>5

\* The objects are the elements of the names.
LEMMA AliveFacts ==
  ASSUME SequenceConstants, NEW m, NEW u, Rests(m, u)
  PROVE  m.alive = Cardinality(UNION {{x} \X (1 .. Size(m, x)) : x \in Name})
<1>1. PICK v : v = Full(u) /\ Sound(m, v)
  BY DEF Rests
<1>2. u \in [Name -> Seq(Elem)]
  BY DEF Rests
<1>3. v["tail"] = <<>> /\ v["other"] = <<>> /\ \A x \in Name : v[x] = u[x]
  BY <1>1, <1>2, FullFacts
<1>4. \A x \in Name : Elements_(v, x) = {x} \X (1 .. Size(m, x))
  <2>1. \A x \in Name : Size(m, x) = Len(v[x])
    BY <1>3, IdleAtRest
  <2>. QED
    BY <2>1 DEF Elements_
<1>5. Elements_(v, "tail") = {} /\ Elements_(v, "other") = {}
  <2>1. Len(<<>>) = 0
    BY EmptyFacts
  <2>. QED
    BY <1>3, <2>1 DEF Elements_
<1>6. PICK A, N : A = {Elements_(v, x) : x \in All} /\ N = {{x} \X (1 .. Size(m, x)) : x \in Name}
  OBVIOUS
<1>7. UNION A = UNION N
  <2>1. ASSUME NEW s \in UNION A PROVE s \in UNION N
    <3>1. PICK x \in All : s \in Elements_(v, x)
      BY <1>6
    <3>2. x \in Name
      BY <1>5, <3>1 DEF All, Temporary
    <3>. QED
      BY <1>4, <1>6, <3>1, <3>2
  <2>2. ASSUME NEW s \in UNION N PROVE s \in UNION A
    <3>1. PICK x \in Name : s \in {x} \X (1 .. Size(m, x))
      BY <1>6
    <3>2. x \in All /\ s \in Elements_(v, x)
      BY <1>4, <3>1 DEF All
    <3>. QED
      BY <1>6, <3>2
  <2>. QED
    BY <2>1, <2>2
<1>8. m.alive = Cardinality(UNION A)
  BY <1>1, <1>6 DEF Sound, Total, Slots
<1>. QED
  BY <1>6, <1>7, <1>8

\* The invariant says that sequences act as sequences.
LEMMA RestsActs ==
  ASSUME SequenceConstants, Rests(Mem, val)
  PROVE  ActsAsSequence
<1>1. PICK m : m = Mem /\ m.heap = heap /\ m.obj = obj /\ m.alive = alive
  BY DEF Mem
<1>2. Rests(m, val)
  BY <1>1
<1>3. ASSUME NEW x \in Name
      PROVE  /\ Elements(m, x) = val[x] /\ val[x] \in Seq(Elem)
             /\ \A i \in Size(m, x) + 1 .. Capacity(m, x) : Cells(m, x)[i] = NoObject
             /\ Size(m, x) <= Capacity(m, x)
  <2>1. PICK v : v = Full(val) /\ Keeps(m, v) /\ x \in All
    BY <1>2, IdleAtRest, SoundFacts
  <2>2. PICK q \in Seq(Elem), c \in Nat : q = v[x] /\ c = Capacity(m, x) /\ Len(q) <= c /\ Len(q) \in Nat
                                          /\ Size(m, x) = Len(q) /\ Elements(m, x) = q /\ Cells(m, x) = Pad(q, c)
    BY <2>1, ObjectFacts
  <2>3. q = val[x]
    BY <1>2, <2>1, <2>2, IdleAtRest
  <2>4. \A i \in 1 .. c : Pad(q, c)[i] = IF i <= Len(q) THEN q[i] ELSE NoObject
    BY <2>2, PadFacts
  <2>5. \A i \in Len(q) + 1 .. c : Pad(q, c)[i] = NoObject
    <3>1. TAKE i \in Len(q) + 1 .. c
    <3>2. i \in 1 .. c /\ ~ (i <= Len(q))
      BY <2>2
    <3>. QED
      BY <2>4, <3>2
  <2>. QED
    BY <2>2, <2>3, <2>5
<1>4. \A t \in Temporary : m.obj[t] = Empty
  BY <1>2 DEF Rests, Temporary
<1>5. m.alive = Cardinality(UNION {{x} \X (1 .. Size(m, x)) : x \in Name})
  BY <1>2, AliveFacts
<1>6. \A b \in Buffer :
         Cardinality({x \in Name : ~IsSmall(m, x) /\ m.obj[x].buf = b}) = IF m.heap[b].used THEN 1 ELSE 0
  BY <1>2, OwnerFacts
<1>7. \A x, y \in Name : Equal(m, x, y) <=> val[x] = val[y]
  <2>1. TAKE x, y \in Name
  <2>2. PICK a \in Seq(Elem), b \in Seq(Elem) : a = val[x] /\ b = val[y] /\ Elements(m, x) = a /\ Elements(m, y) = b
    BY <1>3
  <2>3. Equal(m, x, y) <=> a = b
    BY <2>2, EqualFacts
  <2>. QED
    BY <2>2, <2>3
<1>8. \A x \in Name : /\ Elements(Mem, x) = val[x]
                      /\ \A i \in Size(Mem, x) + 1 .. Capacity(Mem, x) : Cells(Mem, x)[i] = NoObject
                      /\ Size(Mem, x) <= Capacity(Mem, x)
  BY <1>1, <1>3
<1>9. \A t \in Temporary : obj[t] = Empty
  BY <1>1, <1>4
<1>10. alive = Cardinality(UNION {{x} \X (1 .. Size(Mem, x)) : x \in Name})
  BY <1>1, <1>5
<1>11. \A b \in Buffer :
          Cardinality({x \in Name : ~IsSmall(Mem, x) /\ obj[x].buf = b}) = IF heap[b].used THEN 1 ELSE 0
  BY <1>1, <1>6
<1>12. \A x, y \in Name : Equal(Mem, x, y) <=> val[x] = val[y]
  BY <1>1, <1>7
<1>. QED
  BY <1>8, <1>9, <1>10, <1>11, <1>12, Zenon DEF ActsAsSequence

(* For any number of sequences of any values and lengths, kept inside the object or not: each acts *)
(* as the sequence value it stands for, whatever is done to it, no element and no buffer is lost,  *)
(* none is destroyed or freed twice, and comparison is equality (sequence.h, sequence_base.h).     *)
THEOREM SequencesActAsSequences ==
  ASSUME SequenceConstants
  PROVE  SeqSpec => []ActsAsSequence
<1>1. SeqInit => Rests(Mem, val)
  BY InitRests
<1>2. Rests(Mem, val) /\ [SeqNext]_seqVars => Rests(Mem, val)'
  BY NextRests
<1>3. Rests(Mem, val) => ActsAsSequence
  BY RestsActs
<1>. QED
  BY <1>1, <1>2, <1>3, PTL DEF SeqSpec
=============================================================================
