----------------------------- MODULE HazptrStack -----------------------------
(***************************************************************************)
(* The lock-free stack of ParlayLib's allocators                           *)
(* (src/parlay/internal/concurrency/hazptr_stack.h) and the hazard         *)
(* pointers that decide when a popped node may be deleted                  *)
(* (acquire_retire.h).  Each atomic access is a step.  A deleted node may  *)
(* be handed out again by the next new.  Retired nodes are chained through *)
(* their own next pointer.                                                 *)
(***************************************************************************)
EXTENDS Naturals, Sequences, FiniteSets

CONSTANTS Thread, Node, Null, Value,
          Threshold             \* retired nodes before a collection, 30 in the code

ASSUME HazptrAssumption ==
    /\ IsFiniteSet(Node) /\ Null \notin Node /\ Null \notin Value
    /\ Thread \subseteq Nat /\ Threshold \in Nat \ {0}

VARIABLES head,
          t, next, length,      \* the fields of each node; t is Null in a deleted one
          slot,                 \* data->announcement, per thread
          retired, work,        \* data->retired (its first node) and amortized_work
          arrived,              \* the threads that have a thread id
          reg,                  \* the operation a thread is in, and its locals
          out                   \* what its last pop returned

heap == <<t, next, length>>
vars == <<head, heap, slot, retired, work, arrived, reg, out>>

Regs(at, op, mine, p) == [at |-> at, op |-> op, mine |-> mine, p |-> p]
Idle == Regs("idle", "none", Null, Null)
Scanning(todo, seen) == [at |-> "scan", op |-> "pop", mine |-> Null, p |-> Null,
                         todo |-> todo, seen |-> seen]
Alive(n) == t[n] # Null
Goto(th, at) == reg' = [reg EXCEPT ![th].at = at]
KeepHeap == UNCHANGED heap
KeepGarbage == UNCHANGED <<retired, work, arrived>>

Init ==
    /\ head = Null
    /\ t = [n \in Node |-> Null]
    /\ next = [n \in Node |-> Null]
    /\ length = [n \in Node |-> 0]
    /\ slot = [th \in Thread |-> Null]
    /\ retired = [th \in Thread |-> Null]
    /\ work = [th \in Thread |-> 0]
    /\ arrived = {}
    /\ reg = [th \in Thread |-> Idle]
    /\ out = [th \in Thread |-> Null]

\* push: a new node first, then the loop that acquires head.
BeginPush(th) ==
    /\ reg[th].at = "idle"
    /\ \E n \in Node, v \in Value :
         /\ ~Alive(n)
         /\ t' = [t EXCEPT ![n] = v]
         /\ next' = [next EXCEPT ![n] = Null]
         /\ length' = [length EXCEPT ![n] = 1]
         /\ reg' = [reg EXCEPT ![th] = Regs("load", "push", n, Null)]
    /\ arrived' = arrived \cup {th}
    /\ UNCHANGED <<head, slot, retired, work, out>>

BeginRead(th) ==
    /\ reg[th].at = "idle"
    /\ \E op \in {"pop", "size"} :
         reg' = [reg EXCEPT ![th] = Regs("load", op, Null, Null)]
    /\ arrived' = arrived \cup {th}
    /\ UNCHANGED <<head, heap, slot, retired, work, out>>

(* acquire: load head, announce it, and start again unless head still is   *)
(* the node announced.                                                     *)
Load(th) ==
    /\ reg[th].at = "load"
    /\ reg' = [reg EXCEPT ![th] = Regs("announce", @.op, @.mine, head)]
    /\ KeepHeap /\ KeepGarbage /\ UNCHANGED <<head, slot, out>>

Announce(th) ==
    /\ reg[th].at = "announce"
    /\ slot' = [slot EXCEPT ![th] = reg[th].p]
    /\ Goto(th, "validate")
    /\ KeepHeap /\ KeepGarbage /\ UNCHANGED <<head, out>>

AcquiredAt(op) == CASE op = "push" -> "link" [] op = "pop" -> "follow" [] op = "size" -> "measure"

ValidateBlindly(th) ==          \* mutant: head is not looked at again
    /\ reg[th].at = "validate"
    /\ IF reg[th].p = Null /\ reg[th].op = "pop"
       THEN /\ out' = [out EXCEPT ![th] = Null]
            /\ reg' = [reg EXCEPT ![th] = Idle]
       ELSE Goto(th, AcquiredAt(reg[th].op)) /\ UNCHANGED out
    /\ KeepHeap /\ KeepGarbage /\ UNCHANGED <<head, slot>>

Validate(th) ==
    /\ reg[th].at = "validate"
    /\ IF head # reg[th].p THEN Goto(th, "load") /\ UNCHANGED out
       ELSE IF head = Null /\ reg[th].op = "pop"
       THEN /\ out' = [out EXCEPT ![th] = Null]
            /\ reg' = [reg EXCEPT ![th] = Idle]
       ELSE Goto(th, AcquiredAt(reg[th].op)) /\ UNCHANGED out
    /\ KeepHeap /\ KeepGarbage /\ UNCHANGED <<head, slot>>

Link(th) ==
    /\ reg[th].at = "link"
    /\ LET n == reg[th].mine
           h == reg[th].p
       IN  /\ next' = [next EXCEPT ![n] = h]
           /\ length' = [length EXCEPT ![n] = IF h = Null THEN 1 ELSE length[h] + 1]
    /\ Goto(th, "pushCas")
    /\ KeepGarbage /\ UNCHANGED <<head, t, slot, out>>

\* A weak compare-and-swap may also fail for no reason; the node's next then
\* holds what head was.
PushCas(th) ==
    /\ reg[th].at = "pushCas"
    /\ LET n == reg[th].mine IN
       \/ /\ head = next[n] /\ head' = n
          /\ Goto(th, "release") /\ UNCHANGED next
       \/ /\ next' = [next EXCEPT ![n] = head]
          /\ Goto(th, "load") /\ UNCHANGED head
    /\ KeepGarbage /\ UNCHANGED <<t, length, slot, out>>

Follow(th) ==
    /\ reg[th].at = "follow"
    /\ reg' = [reg EXCEPT ![th] = Regs("popCas", @.op, next[@.p], @.p)]
    /\ KeepHeap /\ KeepGarbage /\ UNCHANGED <<head, slot, out>>

(* The value moves out of the node with the swap: nobody else reads it.    *)
PopCas(th) ==
    /\ reg[th].at = "popCas"
    /\ \/ /\ head = reg[th].p /\ head' = reg[th].mine
          /\ out' = [out EXCEPT ![th] = t[reg[th].p]]
          /\ Goto(th, "retire")
       \/ Goto(th, "load") /\ UNCHANGED <<head, out>>
    /\ KeepHeap /\ KeepGarbage /\ UNCHANGED slot

Measure(th) ==                  \* size(): p ? p->length : 0
    /\ reg[th].at = "measure"
    /\ Goto(th, "release")
    /\ KeepHeap /\ KeepGarbage /\ UNCHANGED <<head, slot, out>>

Release(th) ==
    /\ reg[th].at = "release"
    /\ slot' = [slot EXCEPT ![th] = Null]
    /\ reg' = [reg EXCEPT ![th] = Idle]
    /\ KeepHeap /\ KeepGarbage /\ UNCHANGED <<head, out>>

(* retire: chain the node, and collect once enough have been retired.      *)
Retire(th) ==
    /\ reg[th].at = "retire"
    /\ next' = [next EXCEPT ![reg[th].p] = retired[th]]
    /\ retired' = [retired EXCEPT ![th] = reg[th].p]
    /\ IF work[th] + 1 < Threshold
       THEN /\ work' = [work EXCEPT ![th] = @ + 1]
            /\ Goto(th, "release")
       ELSE /\ work' = [work EXCEPT ![th] = 0]
            /\ reg' = [reg EXCEPT ![th] = Scanning(arrived, {})]
    /\ UNCHANGED <<head, t, length, slot, arrived, out>>

\* The announcements are read one by one, of the threads there were.
Scan(th) ==
    /\ reg[th].at = "scan" /\ reg[th].todo # {}
    /\ LET o == CHOOSE x \in reg[th].todo : \A y \in reg[th].todo : x <= y IN
       reg' = [reg EXCEPT ![th] = Scanning(@.todo \ {o}, @.seen \cup {slot[o]})]
    /\ KeepHeap /\ KeepGarbage /\ UNCHANGED <<head, slot, out>>

\* The nodes from n on, along next.
After(n) == IF n = Null THEN Null ELSE next[n]
Chain(n) ==
    LET node[k \in 0 .. Cardinality(Node)] == IF k = 0 THEN n ELSE After(node[k - 1])
        size == Cardinality({i \in DOMAIN node : node[i] # Null})
    IN  IF n = Null THEN <<>> ELSE [k \in 1 .. size |-> node[k - 1]]

(* cleanup: delete every retired node that nobody announced, unlink it     *)
(* from the chain and keep the rest in order.                              *)
CollectAll(th) ==               \* mutant: announcements are ignored
    /\ reg[th].at = "scan" /\ reg[th].todo = {}
    /\ LET all  == Chain(retired[th])
           gone == {all[i] : i \in DOMAIN all} IN
       /\ retired' = [retired EXCEPT ![th] = Null]
       /\ t' = [n \in Node |-> IF n \in gone THEN Null ELSE t[n]]
       /\ next' = [n \in Node |-> IF n \in gone THEN Null ELSE next[n]]
       /\ length' = [n \in Node |-> IF n \in gone THEN 0 ELSE length[n]]
    /\ reg' = [reg EXCEPT ![th] = Regs("release", "none", Null, Null)]
    /\ UNCHANGED <<head, slot, work, arrived, out>>

Collect(th) ==
    /\ reg[th].at = "scan" /\ reg[th].todo = {}
    /\ LET all  == Chain(retired[th])
           kept == {i \in DOMAIN all : all[i] \in reg[th].seen}
           gone == {all[i] : i \in DOMAIN all \ kept}
           KeptAfter(i) ==
             LET later == {j \in kept : i < j} IN
             IF later = {} THEN Null ELSE all[CHOOSE j \in later : \A k \in later : j <= k]
       IN  /\ retired' = [retired EXCEPT ![th] = KeptAfter(0)]
           /\ t' = [n \in Node |-> IF n \in gone THEN Null ELSE t[n]]
           /\ next' = [n \in Node |->
                         IF n \in gone THEN Null
                         ELSE IF \E i \in kept : all[i] = n
                         THEN KeptAfter(CHOOSE i \in kept : all[i] = n) ELSE next[n]]
           /\ length' = [n \in Node |-> IF n \in gone THEN 0 ELSE length[n]]
    /\ reg' = [reg EXCEPT ![th] = Regs("release", "none", Null, Null)]
    /\ UNCHANGED <<head, slot, work, arrived, out>>

Step(th) ==
    \/ BeginPush(th) \/ BeginRead(th)
    \/ Load(th) \/ Announce(th) \/ Validate(th)
    \/ Link(th) \/ PushCas(th) \/ Follow(th) \/ PopCas(th) \/ Measure(th)
    \/ Retire(th) \/ Scan(th) \/ Collect(th) \/ Release(th)

Next == \E th \in Thread : Step(th)

Spec == Init /\ [][Next]_vars

-----------------------------------------------------------------------------
(* A thread about to read a field of the node it acquired finds that node  *)
(* still allocated, whoever popped and retired it meanwhile.               *)
NoUseAfterDelete ==
    \A th \in Thread :
       reg[th].at \in {"link", "follow", "measure", "retire"} /\ reg[th].p # Null
          => Alive(reg[th].p)

(* Each node below head knows the number of nodes under it, which size()   *)
(* reports.                                                                *)
LengthIsDepth ==
    LET stack == Chain(head) IN
    \A i \in DOMAIN stack : length[stack[i]] = Len(stack) - i + 1

\* What pops and size() read is there, and is what it should be.
StackSafe == NoUseAfterDelete /\ LengthIsDepth

(* The stack is linearizable: each successful swap is one push or one pop  *)
(* of StackSpec, and a pop returns the value that was on top.              *)
Values(ns) == [i \in DOMAIN ns |-> t[ns[i]]]
Abstract == INSTANCE StackSpec WITH Nothing <- Null, items <- Values(Chain(head))
ImplementsStack == Abstract!Spec
=============================================================================
