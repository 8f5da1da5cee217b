------------------------------ MODULE ThreadIds ------------------------------
(***************************************************************************)
(* The pool of dense thread ids that ParlayLib's per-thread data is        *)
(* indexed by (src/parlay/internal/thread_id_pool.h).  A thread takes an   *)
(* id when it first asks for one and gives it back when it dies; taking    *)
(* one from the list of available ids is guarded by a mutex, giving one    *)
(* back is not.                                                            *)
(***************************************************************************)
EXTENDS Naturals

CONSTANTS Owner, MaxIds, None

ASSUME IdsAssumption == MaxIds \in Nat /\ None \notin Nat /\ None \notin Owner

Id == 0 .. MaxIds - 1

VARIABLES num,                  \* num_thread_ids
          available,            \* available_ids, the first available id
          nextId,               \* ThreadId::next
          mutex,
          th                    \* what each thread is doing, and its id

idVars == <<num, available, nextId, mutex, th>>

IdInit ==
    /\ num = 0 /\ available = None
    /\ nextId = [i \in Id |-> None]
    /\ mutex = None
    /\ th = [o \in Owner |-> [at |-> "new", id |-> None, next |-> None]]

Go(o, r) == th' = [th EXCEPT ![o] = r]

\* acquire: the lock is taken only if there seem to be ids to take
LookBlindly(o) ==               \* mutant: no mutex
    /\ th[o].at = "new"
    /\ Go(o, [th[o] EXCEPT !.at = IF available = None THEN "fresh" ELSE "locked"])
    /\ UNCHANGED <<num, available, nextId, mutex>>

Look(o) ==
    /\ th[o].at = "new"
    /\ Go(o, [th[o] EXCEPT !.at = IF available = None THEN "fresh" ELSE "lock"])
    /\ UNCHANGED <<num, available, nextId, mutex>>

Lock(o) ==
    /\ th[o].at = "lock" /\ mutex = None
    /\ mutex' = o /\ Go(o, [th[o] EXCEPT !.at = "locked"])
    /\ UNCHANGED <<num, available, nextId>>

\* current; with no id left, make a new one
ReadFirst(o) ==
    /\ th[o].at = "locked"
    /\ IF available = None
       THEN Go(o, [th[o] EXCEPT !.at = "fresh"]) /\ mutex' = IF mutex = o THEN None ELSE mutex
       ELSE Go(o, [th[o] EXCEPT !.at = "first", !.id = available]) /\ UNCHANGED mutex
    /\ UNCHANGED <<num, available, nextId>>

ReadNext(o) ==
    /\ th[o].at = "first"
    /\ Go(o, [th[o] EXCEPT !.at = "swap", !.next = nextId[th[o].id]])
    /\ UNCHANGED <<num, available, nextId, mutex>>

SwapFirst(o) ==
    /\ th[o].at = "swap"
    /\ \/ /\ available = th[o].id /\ available' = th[o].next
          /\ Go(o, [at |-> "owner", id |-> th[o].id, next |-> None])
          /\ mutex' = IF mutex = o THEN None ELSE mutex
       \/ Go(o, [th[o] EXCEPT !.at = "locked"]) /\ UNCHANGED <<available, mutex>>
    /\ UNCHANGED <<num, nextId>>

Fresh(o) ==
    /\ th[o].at = "fresh" /\ num < MaxIds
    /\ num' = num + 1
    /\ Go(o, [at |-> "owner", id |-> num, next |-> None])
    /\ UNCHANGED <<available, nextId, mutex>>

\* relinquish, as the thread dies; the swap may fail and leaves the new
\* first id in next
Die(o) ==
    /\ th[o].at = "owner"
    /\ nextId' = [nextId EXCEPT ![th[o].id] = available]
    /\ Go(o, [th[o] EXCEPT !.at = "dying"])
    /\ UNCHANGED <<num, available, mutex>>

GiveBack(o) ==
    /\ th[o].at = "dying"
    /\ \/ /\ available = nextId[th[o].id] /\ available' = th[o].id
          /\ Go(o, [at |-> "new", id |-> None, next |-> None])
          /\ UNCHANGED nextId
       \/ /\ nextId' = [nextId EXCEPT ![th[o].id] = available]
          /\ UNCHANGED <<available, th>>
    /\ UNCHANGED <<num, mutex>>

IdNext ==
    \E o \in Owner :
       \/ Look(o) \/ Lock(o) \/ ReadFirst(o) \/ ReadNext(o) \/ SwapFirst(o) \/ Fresh(o)
       \/ Die(o) \/ GiveBack(o)

IdSpec == IdInit /\ [][IdNext]_idVars
-----------------------------------------------------------------------------
Held(o) == th[o].at \in {"owner", "dying"}

\* list[1], ..., list[n] are the ids that available leads to.
Lists(list, n) ==
    /\ available = IF n = 0 THEN None ELSE list[1]
    /\ \A k \in 1 .. n : nextId[list[k]] = IF k = n THEN None ELSE list[k + 1]
    /\ \A k, m \in 1 .. n : list[k] = list[m] => k = m

(* Ids are unique among live threads and dense: the list of available ids  *)
(* ends and visits none twice, no two threads have the same id, and those  *)
(* in the list or with a thread, never both, are those below               *)
(* num_thread_ids.                                                         *)
IdsUniqueAndDense ==
    /\ \E n \in 0 .. num : \E list \in [1 .. n -> 0 .. num - 1] :
          /\ Lists(list, n)
          /\ \A i \in Id :
                i < num <=> \/ \E k \in 1 .. n : list[k] = i
                          \/ \E o \in Owner : Held(o) /\ th[o].id = i
          /\ \A o \in Owner : Held(o) => \A k \in 1 .. n : list[k] # th[o].id
    /\ \A o, p \in Owner : Held(o) /\ Held(p) /\ th[o].id = th[p].id => o = p
=============================================================================
