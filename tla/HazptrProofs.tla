---------------------------- MODULE HazptrProofs ----------------------------
(***************************************************************************)
(* Proofs about HazptrStack, for any number of threads, nodes and retired  *)
(* nodes before a collection: no node is read after it was deleted, and    *)
(* the stack is linearizable.                                              *)
(***************************************************************************)
EXTENDS HazptrStack, FiniteSetTheorems, LeastNumber

Ptr == Node \cup {Null}

-----------------------------------------------------------------------------
(* Types: what a thread's registers hold, by its place.                    *)

Places == {"idle", "load", "announce", "validate", "link", "pushCas", "follow", "popCas",
           "measure", "release", "retire"}

Building(r) == r.op = "push" /\ r.at \in {"load", "announce", "validate", "link", "pushCas"}

RegOK(r) ==
    \/ /\ r \in [at : Places, op : {"none", "push", "pop", "size"}, mine : Ptr, p : Ptr]
       /\ r.at \in {"load", "announce", "validate"} => r.op # "none"
       /\ r.at \in {"link", "pushCas"} => r.op = "push"
       /\ r.at \in {"follow", "popCas", "retire"} => r.op = "pop" /\ r.p \in Node
       /\ r.at = "measure" => r.op = "size"
       /\ Building(r) => r.mine \in Node
    \/ /\ r = Scanning(r.todo, r.seen)
       /\ r.todo \subseteq Thread /\ r.seen \subseteq Ptr

HeapTypes ==
    /\ head \in Ptr
    /\ t \in [Node -> Value \cup {Null}]
    /\ next \in [Node -> Ptr]
    /\ length \in [Node -> Nat]

ThreadTypes ==
    /\ slot \in [Thread -> Ptr] /\ retired \in [Thread -> Ptr]
    /\ work \in [Thread -> Nat] /\ arrived \subseteq Thread /\ DOMAIN reg = Thread
    /\ out \in [Thread -> Value \cup {Null}]
    /\ \A th \in Thread :
          /\ RegOK(reg[th])
          /\ reg[th].at # "idle" => th \in arrived
          /\ reg[th].at = "validate" => slot[th] = reg[th].p

-----------------------------------------------------------------------------
(* Every node that is not deleted is in one place: on the stack, in the    *)
(* hands of one thread, or among the retired nodes of one thread.          *)

\* d[1] to d[h] are the nodes of the stack, from the bottom; d[0] is Null.
StackShape(h, d) ==
    /\ h \in Nat /\ d \in [0 .. h -> Ptr] /\ d[0] = Null /\ head = d[h]
    /\ \A i \in 1 .. h : /\ d[i] \in Node /\ Alive(d[i])
                         /\ next[d[i]] = d[i - 1] /\ length[d[i]] = i
    /\ \A i, j \in 1 .. h : d[i] = d[j] => i = j

On(h, d) == {d[i] : i \in 1 .. h}

\* A thread holds the node it is pushing, and the one it popped until it retires it.
Held(th) == IF Building(reg[th]) THEN reg[th].mine
            ELSE IF reg[th].at = "retire" THEN reg[th].p ELSE Null

HeldShape(S, G) ==
    /\ \A u \in Thread : Held(u) # Null =>
          /\ Held(u) \in Node /\ Alive(Held(u)) /\ Held(u) \notin S
          /\ \A v \in Thread : Held(u) \notin G[v]
    /\ \A u, v \in Thread : u # v /\ Held(u) = Held(v) => Held(u) = Null

\* G[u] has what thread u has retired, and its chain stays within.
GarbageShape(S, G) ==
    /\ G \in [Thread -> SUBSET Node]
    /\ \A u \in Thread : /\ retired[u] \in G[u] \cup {Null}
                         /\ \A n \in G[u] : /\ Alive(n) /\ n \notin S
                                            /\ next[n] \in G[u] \cup {Null}
    /\ \A u, v \in Thread : u # v => G[u] \cap G[v] = {}

\* A node acquired is announced, and stays: whoever retired it and collects will see that.
Guards(u) == reg[u].at \in {"link", "pushCas", "follow", "popCas", "measure"} /\ reg[u].p # Null

GuardShape(G) ==
    \A u \in Thread : Guards(u) =>
       /\ slot[u] = reg[u].p /\ Alive(reg[u].p)
       /\ \A v \in Thread :
             /\ Building(reg[v]) => reg[v].mine # reg[u].p
             /\ reg[v].at = "scan" /\ reg[u].p \in G[v] =>
                   u \in reg[v].todo \/ reg[u].p \in reg[v].seen

\* While the node acquired is on the stack, what was read of it is still true.
CasShape(S) ==
    \A u \in Thread :
       /\ reg[u].at = "popCas" /\ reg[u].p \in S => reg[u].mine = next[reg[u].p]
       /\ reg[u].at = "pushCas" =>
             /\ next[reg[u].mine] = reg[u].p
             /\ reg[u].p = Null => length[reg[u].mine] = 1
             /\ reg[u].p \in S => length[reg[u].mine] = length[reg[u].p] + 1

Shape(h, d, G) ==
    /\ StackShape(h, d) /\ HeldShape(On(h, d), G) /\ GarbageShape(On(h, d), G)
    /\ GuardShape(G) /\ CasShape(On(h, d))

HazptrTypes == HeapTypes /\ ThreadTypes
Ready(h, d, G) == HazptrTypes /\ Shape(h, d, G)

HazptrInv == \E h, d, G : Ready(h, d, G)

-----------------------------------------------------------------------------
(* A step of one thread.                                                   *)

\* Registers outside a collection are records of four fields.
LEMMA RegFields ==
  ASSUME NEW r, RegOK(r), r.at # "scan"
  PROVE  /\ r \in [at : Places, op : {"none", "push", "pop", "size"}, mine : Ptr, p : Ptr]
         /\ r.at \in Places /\ r.op \in {"none", "push", "pop", "size"}
         /\ r.mine \in Ptr /\ r.p \in Ptr
         /\ \A at : [r EXCEPT !.at = at] = Regs(at, r.op, r.mine, r.p)
<1>1. r \in [at : Places, op : {"none", "push", "pop", "size"}, mine : Ptr, p : Ptr]
  <2>1. Scanning(r.todo, r.seen).at = "scan"
    BY DEF Scanning
  <2>. QED
    BY <2>1 DEF RegOK
<1>. QED
  BY <1>1 DEF Regs

\* A step that changes neither the heap nor what anybody holds.
LEMMA QuietStep ==
  ASSUME NEW h, NEW d, NEW G, Shape(h, d, G),
         head' = head, t' = t, next' = next, length' = length, retired' = retired,
         \A u \in Thread : Held(u)' = Held(u), GuardShape(G)', CasShape(On(h, d))'
  PROVE  Shape(h, d, G)'
<1>1. \A n : Alive(n)' <=> Alive(n)
  BY DEF Alive
<1>2. StackShape(h, d)'
  BY <1>1 DEF Shape, StackShape
<1>3. HeldShape(On(h, d), G)'
  BY <1>1 DEF Shape, HeldShape, On
<1>4. GarbageShape(On(h, d), G)'
  BY <1>1 DEF Shape, GarbageShape, On
<1>. QED
  BY <1>2, <1>3, <1>4 DEF Shape

\* The same when only thread w's registers and announcement change.
LEMMA QuietMove ==
  ASSUME NEW h, NEW d, NEW G, Shape(h, d, G), ThreadTypes, NEW w \in Thread,
         head' = head, t' = t, next' = next, length' = length, retired' = retired,
         \A u \in Thread \ {w} : reg'[u] = reg[u] /\ slot'[u] = slot[u],
         NEW r, r = reg'[w], Held(w)' = Held(w), Building(r) => r.mine = reg[w].mine /\ Building(reg[w]),
         r.at = "scan" =>
            /\ reg[w].at = "scan"
            /\ \A u \in Thread \ {w} :
                 Guards(u) /\ (u \in reg[w].todo \/ reg[u].p \in reg[w].seen) =>
                    u \in r.todo \/ reg[u].p \in r.seen,
         Guards(w)' => /\ slot'[w] = r.p /\ Alive(r.p)
                       /\ \A v \in Thread : /\ Building(reg'[v]) => reg'[v].mine # r.p
                                            /\ reg[v].at = "scan" /\ r.p \in G[v] =>
                                                 w \in reg[v].todo \/ r.p \in reg[v].seen,
         r.at = "popCas" /\ r.p \in On(h, d) => r.mine = next[r.p],
         r.at # "pushCas"
  PROVE  Shape(h, d, G)'
<1>1. \A u \in Thread : Held(u)' = Held(u)
  BY DEF Held
<1>2. CasShape(On(h, d))'
  <2>1. On(h, d)' = On(h, d)
    BY DEF On
  <2>. QED
    BY <2>1 DEF Shape, CasShape
<1>3. GuardShape(G)'
  <2>1. SUFFICES ASSUME NEW u \in Thread, Guards(u)'
                 PROVE  /\ slot'[u] = reg'[u].p /\ t'[reg'[u].p] # Null
                        /\ \A v \in Thread :
                             /\ Building(reg'[v]) => reg'[v].mine # reg'[u].p
                             /\ reg'[v].at = "scan" /\ reg'[u].p \in G[v] =>
                                   u \in reg'[v].todo \/ reg'[u].p \in reg'[v].seen
    BY DEF GuardShape, Building, Alive
  <2>3. CASE u = w
    BY <2>1, <2>3 DEF Guards, Alive
  <2>4. CASE u # w
    <3>1. Guards(u) /\ reg'[u] = reg[u] /\ slot'[u] = slot[u]
      BY <2>1, <2>4 DEF Guards
    <3>2. /\ slot[u] = reg[u].p /\ Alive(reg[u].p)
          /\ \A v \in Thread :
                /\ Building(reg[v]) => reg[v].mine # reg[u].p
                /\ reg[v].at = "scan" /\ reg[u].p \in G[v] =>
                      u \in reg[v].todo \/ reg[u].p \in reg[v].seen
      BY <3>1 DEF Shape, GuardShape
    <3>. QED
      BY <2>4, <3>1, <3>2 DEF Alive
  <2>. QED
    BY <2>3, <2>4
<1>. QED
  BY <1>1, <1>2, <1>3, QuietStep

\* The types of the threads, after a step of thread w.
LEMMA ThreadMove ==
  ASSUME ThreadTypes, NEW w \in Thread, NEW r, RegOK(r), DOMAIN reg' = DOMAIN reg, reg'[w] = r,
         \A u \in Thread \ {w} : reg'[u] = reg[u] /\ slot'[u] = slot[u],
         slot' \in [Thread -> Ptr], r.at = "validate" => slot'[w] = r.p,
         arrived \subseteq arrived', arrived' \subseteq Thread, r.at # "idle" => w \in arrived',
         out' \in [Thread -> Value \cup {Null}],
         retired' \in [Thread -> Ptr], work' \in [Thread -> Nat]
  PROVE  ThreadTypes'
<1>1. ASSUME NEW u \in Thread
      PROVE  /\ RegOK(reg'[u])
             /\ reg'[u].at # "idle" => u \in arrived'
             /\ reg'[u].at = "validate" => slot'[u] = reg'[u].p
  <2>1. CASE u = w
    BY <2>1
  <2>2. CASE u # w
    BY <2>2 DEF ThreadTypes
  <2>. QED
    BY <2>1, <2>2
<1>. QED
  BY <1>1 DEF ThreadTypes, RegOK

\* A thread in an operation has a record of four fields; where it is says which operation.
LEMMA RegsOK ==
  ASSUME NEW at \in Places, NEW op \in {"none", "push", "pop", "size"}, NEW mine \in Ptr, NEW p \in Ptr,
         at \in {"load", "announce", "validate"} => op # "none",
         at \in {"link", "pushCas"} => op = "push",
         at \in {"follow", "popCas", "retire"} => op = "pop" /\ p \in Node,
         at = "measure" => op = "size",
         op = "push" /\ at # "release" => mine \in Node
  PROVE  /\ RegOK(Regs(at, op, mine, p))
         /\ Regs(at, op, mine, p).at = at /\ Regs(at, op, mine, p).op = op
         /\ Regs(at, op, mine, p).mine = mine /\ Regs(at, op, mine, p).p = p
         /\ Building(Regs(at, op, mine, p)) <=>
              op = "push" /\ at \in {"load", "announce", "validate", "link", "pushCas"}
  BY DEF RegOK, Regs, Building, Places

\* pop() or size() begins: the thread owns nothing yet.
LEMMA KeepsBeginRead ==
  ASSUME NEW h, NEW d, NEW G, Ready(h, d, G), NEW w \in Thread, BeginRead(w)
  PROVE  Ready(h, d, G)'
<1>1. PICK op \in {"pop", "size"} : reg' = [reg EXCEPT ![w] = Regs("load", op, Null, Null)]
  BY DEF BeginRead
<1>2. ThreadTypes /\ HeapTypes /\ Shape(h, d, G)
  BY DEF Ready, HazptrTypes
<1> DEFINE r == Regs("load", op, Null, Null)
<1>3. /\ RegOK(r) /\ r.at = "load" /\ r.op = op /\ r.mine = Null /\ r.p = Null /\ ~ Building(r)
  BY RegsOK DEF Ptr, Places
<1> HIDE DEF r
<1>4. /\ reg'[w] = r /\ DOMAIN reg' = DOMAIN reg
      /\ \A u \in Thread \ {w} : reg'[u] = reg[u] /\ slot'[u] = slot[u]
  BY <1>1, <1>2 DEF r, ThreadTypes, BeginRead
<1>5. ThreadTypes'
  <2>1. /\ arrived \subseteq arrived' /\ arrived' \subseteq Thread /\ w \in arrived'
        /\ slot' \in [Thread -> Ptr] /\ out' \in [Thread -> Value \cup {Null}]
        /\ retired' \in [Thread -> Ptr] /\ work' \in [Thread -> Nat]
    BY <1>2 DEF BeginRead, ThreadTypes
  <2>. QED
    BY <1>2, <1>3, <1>4, <2>1, ThreadMove
<1>6. head' = head /\ t' = t /\ next' = next /\ length' = length /\ retired' = retired
  BY DEF BeginRead, heap
<1>7. HeapTypes'
  BY <1>2, <1>6 DEF HeapTypes
<1>8. Held(w)' = Held(w)
  BY <1>3, <1>4 DEF Held, BeginRead, Building
<1>9. ~ Guards(w)'
  BY <1>3, <1>4 DEF Guards
<1>10. Shape(h, d, G)'
  BY <1>2, <1>3, <1>4, <1>6, <1>8, <1>9, QuietMove
<1>. QED
  BY <1>5, <1>7, <1>10 DEF Ready, HazptrTypes

\* The actions of a thread inside an operation that change its registers, its
\* announcement and what it returned, and nothing else.
LEMMA QuietReady ==
  ASSUME NEW h, NEW d, NEW G, Ready(h, d, G), NEW w \in Thread, NEW r, RegOK(r),
         reg' = [reg EXCEPT ![w] = r], UNCHANGED <<head, heap, retired, work, arrived>>,
         reg[w].at # "idle", slot' \in [Thread -> Ptr], \A u \in Thread \ {w} : slot'[u] = slot[u],
         out' \in [Thread -> Value \cup {Null}], r.at = "validate" => slot'[w] = r.p,
         Building(r) => r.mine = reg[w].mine /\ Building(reg[w]),
         (Building(r) <=> Building(reg[w])) \/ reg[w].mine = Null,
         r.at # "retire", reg[w].at # "retire",
         r.at = "scan" =>
            /\ reg[w].at = "scan"
            /\ \A u \in Thread \ {w} :
                 Guards(u) /\ (u \in reg[w].todo \/ reg[u].p \in reg[w].seen) =>
                    u \in r.todo \/ reg[u].p \in r.seen,
         r.at \in {"link", "pushCas", "follow", "popCas", "measure"} /\ r.p # Null =>
            /\ slot'[w] = r.p /\ Alive(r.p)
            /\ \A v \in Thread : /\ Building(reg[v]) => reg[v].mine # r.p
                                 /\ reg[v].at = "scan" /\ r.p \in G[v] =>
                                      w \in reg[v].todo \/ r.p \in reg[v].seen,
         r.at = "popCas" /\ r.p \in On(h, d) => r.mine = next[r.p],
         r.at # "pushCas"
  PROVE  Ready(h, d, G)'
<1>1. ThreadTypes /\ HeapTypes /\ Shape(h, d, G)
  BY DEF Ready, HazptrTypes
<1>2. reg'[w] = r /\ DOMAIN reg' = DOMAIN reg /\ \A u \in Thread \ {w} : reg'[u] = reg[u]
  BY <1>1 DEF ThreadTypes
<1>3. head' = head /\ t' = t /\ next' = next /\ length' = length /\ retired' = retired /\ work' = work
  BY DEF heap
<1>4. ThreadTypes'
  <2>1. arrived' \subseteq Thread /\ w \in arrived' /\ arrived' = arrived
        /\ retired' \in [Thread -> Ptr] /\ work' \in [Thread -> Nat]
    BY <1>1, <1>3 DEF ThreadTypes
  <2>. QED
    BY <1>1, <1>2, <2>1, ThreadMove
<1>5. HeapTypes'
  BY <1>1, <1>3 DEF HeapTypes
<1>6. Held(w)' = Held(w)
  BY <1>2 DEF Held, Building
<1>7. Guards(w)' => /\ slot'[w] = r.p /\ Alive(r.p)
                    /\ \A v \in Thread : /\ Building(reg'[v]) => reg'[v].mine # r.p
                                         /\ reg[v].at = "scan" /\ r.p \in G[v] =>
                                              w \in reg[v].todo \/ r.p \in reg[v].seen
  <2>1. SUFFICES ASSUME Guards(w)', NEW v \in Thread, Building(reg'[v])
                 PROVE  reg'[v].mine # r.p
    BY <1>2 DEF Guards
  <2>2. r.at \in {"link", "pushCas", "follow", "popCas", "measure"} /\ r.p # Null
    BY <1>2, <2>1 DEF Guards
  <2>3. CASE v = w
    BY <1>2, <2>1, <2>2, <2>3
  <2>4. CASE v # w
    BY <1>2, <2>1, <2>2, <2>4
  <2>. QED
    BY <2>3, <2>4
<1>8. Shape(h, d, G)'
  BY <1>1, <1>2, <1>3, <1>6, <1>7, QuietMove
<1>. QED
  BY <1>4, <1>5, <1>8 DEF Ready, HazptrTypes

\* acquire reads head: the pointer guards nothing until it is announced and validated.
LEMMA KeepsLoad ==
  ASSUME NEW h, NEW d, NEW G, Ready(h, d, G), NEW w \in Thread, Load(w)
  PROVE  Ready(h, d, G)'
<1>1. /\ reg[w].at = "load" /\ RegOK(reg[w]) /\ head \in Ptr
      /\ slot \in [Thread -> Ptr] /\ out \in [Thread -> Value \cup {Null}]
  BY DEF Load, Ready, HazptrTypes, ThreadTypes, HeapTypes
<1>2. PICK op, mine, p : op = reg[w].op /\ mine = reg[w].mine /\ p = reg[w].p
  OBVIOUS
<1>3. /\ op \in {"none", "push", "pop", "size"} /\ mine \in Ptr /\ op # "none"
      /\ op = "push" => mine \in Node
  BY <1>1, <1>2, RegFields DEF RegOK, Building, Scanning
<1> DEFINE r == Regs("announce", op, mine, head)
<1>4. /\ RegOK(r) /\ r.at = "announce" /\ r.op = op /\ r.mine = mine /\ r.p = head
      /\ Building(r) <=> op = "push"
  BY <1>1, <1>3, RegsOK DEF Places
<1>5. reg' = [reg EXCEPT ![w] = r]
  BY <1>2 DEF Load
<1> HIDE DEF r
<1>6. Building(reg[w]) <=> op = "push"
  BY <1>1, <1>2 DEF Building
<1>7. UNCHANGED <<head, heap, retired, work, arrived, slot, out>>
  BY DEF Load, KeepHeap, KeepGarbage
<1>. QED
  BY <1>1, <1>2, <1>4, <1>5, <1>6, <1>7, QuietReady

\* acquire announces the pointer it read.
LEMMA KeepsAnnounce ==
  ASSUME NEW h, NEW d, NEW G, Ready(h, d, G), NEW w \in Thread, Announce(w)
  PROVE  Ready(h, d, G)'
<1>1. /\ reg[w].at = "announce" /\ RegOK(reg[w])
      /\ slot \in [Thread -> Ptr] /\ out \in [Thread -> Value \cup {Null}]
  BY DEF Announce, Ready, HazptrTypes, ThreadTypes, HeapTypes
<1>2. PICK op, mine, p : op = reg[w].op /\ mine = reg[w].mine /\ p = reg[w].p
  OBVIOUS
<1>3. /\ op \in {"none", "push", "pop", "size"} /\ mine \in Ptr /\ p \in Ptr /\ op # "none"
      /\ op = "push" => mine \in Node
  BY <1>1, <1>2, RegFields DEF RegOK, Building, Scanning
<1> DEFINE r == Regs("validate", op, mine, p)
<1>4. /\ RegOK(r) /\ r.at = "validate" /\ r.op = op /\ r.mine = mine /\ r.p = p
      /\ Building(r) <=> op = "push"
  BY <1>1, <1>3, RegsOK DEF Places
<1>5. reg' = [reg EXCEPT ![w] = r]
  BY <1>1, <1>2, RegFields DEF Announce, Goto
<1> HIDE DEF r
<1>6. Building(reg[w]) <=> op = "push"
  BY <1>1, <1>2 DEF Building
<1>7. /\ UNCHANGED <<head, heap, retired, work, arrived, out>>
      /\ slot' = [slot EXCEPT ![w] = p]
  BY <1>2 DEF Announce, KeepHeap, KeepGarbage
<1>8. slot' \in [Thread -> Ptr] /\ slot'[w] = p /\ \A u \in Thread \ {w} : slot'[u] = slot[u]
  BY <1>1, <1>3, <1>7
<1>. QED
  BY <1>1, <1>2, <1>4, <1>5, <1>6, <1>7, <1>8, QuietReady

\* size() has read the length of the node it acquired.
LEMMA KeepsMeasure ==
  ASSUME NEW h, NEW d, NEW G, Ready(h, d, G), NEW w \in Thread, Measure(w)
  PROVE  Ready(h, d, G)'
<1>1. /\ reg[w].at = "measure" /\ RegOK(reg[w])
      /\ slot \in [Thread -> Ptr] /\ out \in [Thread -> Value \cup {Null}]
  BY DEF Measure, Ready, HazptrTypes, ThreadTypes
<1>2. PICK mine, p : mine = reg[w].mine /\ p = reg[w].p
  OBVIOUS
<1>3. reg[w].op = "size" /\ mine \in Ptr /\ p \in Ptr
  BY <1>1, <1>2, RegFields DEF RegOK, Scanning
<1> DEFINE r == Regs("release", "size", mine, p)
<1>4. RegOK(r) /\ r.at = "release" /\ ~ Building(r)
  BY <1>3, RegsOK DEF Places
<1>5. reg' = [reg EXCEPT ![w] = r]
  BY <1>1, <1>2, <1>3, RegFields, ZenonT(30) DEF Measure, Goto
<1> HIDE DEF r
<1>6. ~ Building(reg[w])
  BY <1>1 DEF Building
<1>7. UNCHANGED <<head, heap, retired, work, arrived, slot, out>>
  BY DEF Measure, KeepHeap, KeepGarbage
<1>. QED
  BY <1>1, <1>4, <1>5, <1>6, <1>7, QuietReady

\* release takes the announcement back, when nothing is read any more.
LEMMA KeepsRelease ==
  ASSUME NEW h, NEW d, NEW G, Ready(h, d, G), NEW w \in Thread, Release(w)
  PROVE  Ready(h, d, G)'
<1>1. /\ reg[w].at = "release" /\ RegOK(reg[w])
      /\ slot \in [Thread -> Ptr] /\ out \in [Thread -> Value \cup {Null}]
  BY DEF Release, Ready, HazptrTypes, ThreadTypes
<1>2. RegOK(Idle) /\ Idle.at = "idle" /\ ~ Building(Idle)
  BY RegsOK DEF Places, Idle, Ptr
<1>3. reg' = [reg EXCEPT ![w] = Idle]
  BY DEF Release
<1>4. ~ Building(reg[w])
  BY <1>1 DEF Building
<1>5. /\ UNCHANGED <<head, heap, retired, work, arrived, out>>
      /\ slot' = [slot EXCEPT ![w] = Null]
  BY DEF Release, KeepHeap, KeepGarbage
<1>6. slot' \in [Thread -> Ptr] /\ \A u \in Thread \ {w} : slot'[u] = slot[u]
  BY <1>1, <1>5 DEF Ptr
<1>. QED
  BY <1>1, <1>2, <1>3, <1>4, <1>5, <1>6, QuietReady

\* A node of the stack: nobody holds it, and nobody retired it.
LEMMA OnStack ==
  ASSUME NEW h, NEW d, NEW G, Shape(h, d, G), NEW n, n \in On(h, d)
  PROVE  /\ n \in Node /\ Alive(n)
         /\ \A u \in Thread : Held(u) # n /\ n \notin G[u]
         /\ \A u \in Thread : Building(reg[u]) => reg[u].mine # n
<1>1. n \in Node /\ Alive(n)
  BY DEF On, Shape, StackShape
<1>2. ASSUME NEW u \in Thread PROVE Held(u) # n /\ n \notin G[u]
  BY <1>1, HazptrAssumption DEF Shape, HeldShape, GarbageShape
<1>3. ASSUME NEW u \in Thread, Building(reg[u]) PROVE reg[u].mine # n
  BY <1>2, <1>3 DEF Held
<1>. QED
  BY <1>1, <1>2, <1>3

\* head is on the stack, unless it is Null.
LEMMA HeadOnStack ==
  ASSUME NEW h, NEW d, NEW G, Shape(h, d, G), head # Null
  PROVE  head \in On(h, d) /\ h > 0
  BY DEF On, Shape, StackShape

\* acquire looks at head again: a node still on the stack when it is announced is guarded.
LEMMA KeepsValidate ==
  ASSUME NEW h, NEW d, NEW G, Ready(h, d, G), NEW w \in Thread, Validate(w)
  PROVE  Ready(h, d, G)'
<1>1. /\ reg[w].at = "validate" /\ RegOK(reg[w]) /\ slot[w] = reg[w].p
      /\ slot \in [Thread -> Ptr] /\ out \in [Thread -> Value \cup {Null}] /\ Shape(h, d, G)
  BY DEF Validate, Ready, HazptrTypes, ThreadTypes
<1>2. PICK op, mine, p : op = reg[w].op /\ mine = reg[w].mine /\ p = reg[w].p
  OBVIOUS
<1>3. /\ op \in {"none", "push", "pop", "size"} /\ mine \in Ptr /\ p \in Ptr /\ op # "none"
      /\ op = "push" => mine \in Node
      /\ \A at : [reg[w] EXCEPT !.at = at] = Regs(at, op, mine, p)
  BY <1>1, <1>2, RegFields DEF RegOK, Building, Scanning
<1>4. Building(reg[w]) <=> op = "push"
  BY <1>1, <1>2 DEF Building
<1>5. UNCHANGED <<head, heap, retired, work, arrived, slot>>
  BY DEF Validate, KeepHeap, KeepGarbage
<1>6. CASE head # p
  <2> DEFINE r == Regs("load", op, mine, p)
  <2>1. /\ RegOK(r) /\ r.at = "load" /\ r.mine = mine
        /\ Building(r) <=> op = "push"
    BY <1>3, RegsOK DEF Places
  <2>2. reg' = [reg EXCEPT ![w] = r] /\ out' = out
    BY <1>2, <1>3, <1>6 DEF Validate, Goto
  <2> HIDE DEF r
  <2>. QED
    BY <1>1, <1>2, <1>4, <1>5, <2>1, <2>2, QuietReady
<1>7. CASE head = p /\ head = Null /\ op = "pop"
  <2>1. RegOK(Idle) /\ Idle.at = "idle" /\ ~ Building(Idle)
    BY RegsOK DEF Places, Idle, Ptr
  <2>2. reg' = [reg EXCEPT ![w] = Idle] /\ out' = [out EXCEPT ![w] = Null]
    BY <1>2, <1>7 DEF Validate
  <2>3. out' \in [Thread -> Value \cup {Null}] /\ ~ Building(reg[w])
    BY <1>1, <1>4, <1>7, <2>2
  <2>. QED
    BY <1>1, <1>5, <2>1, <2>2, <2>3, QuietReady
<1>8. CASE head = p /\ ~ (head = Null /\ op = "pop")
  <2> DEFINE r == Regs(AcquiredAt(op), op, mine, p)
  <2>0. AcquiredAt(op) \in Places /\ AcquiredAt(op) \in {"link", "follow", "measure"}
        /\ (AcquiredAt(op) = "link" <=> op = "push")
        /\ (AcquiredAt(op) = "follow" <=> op = "pop")
        /\ (AcquiredAt(op) = "measure" <=> op = "size")
    BY <1>3 DEF AcquiredAt, Places
  <2>1. /\ RegOK(r) /\ r.at = AcquiredAt(op) /\ r.op = op /\ r.mine = mine /\ r.p = p
        /\ Building(r) <=> op = "push"
    <3>1. PICK at : at = AcquiredAt(op)
      OBVIOUS
    <3>2. /\ at \in Places /\ at \in {"link", "follow", "measure"}
          /\ at \in {"load", "announce", "validate"} => op # "none"
          /\ at \in {"link", "pushCas"} => op = "push"
          /\ at \in {"follow", "popCas", "retire"} => op = "pop" /\ p \in Node
          /\ at = "measure" => op = "size"
          /\ op = "push" /\ at # "release" => mine \in Node
          /\ op = "push" => at = "link"
      BY <1>3, <1>8, <2>0, <3>1 DEF Ptr
    <3>3. /\ RegOK(Regs(at, op, mine, p))
          /\ Regs(at, op, mine, p).at = at /\ Regs(at, op, mine, p).op = op
          /\ Regs(at, op, mine, p).mine = mine /\ Regs(at, op, mine, p).p = p
          /\ Building(Regs(at, op, mine, p)) <=>
               op = "push" /\ at \in {"load", "announce", "validate", "link", "pushCas"}
      BY <1>3, <3>2, RegsOK
    <3>. QED
      BY <3>1, <3>2, <3>3
  <2>2. reg' = [reg EXCEPT ![w] = r] /\ out' = out
    BY <1>2, <1>3, <1>8 DEF Validate, Goto
  <2> HIDE DEF r
  <2>3. ASSUME p # Null
        PROVE  /\ slot'[w] = p /\ Alive(p)
               /\ \A v \in Thread : /\ Building(reg[v]) => reg[v].mine # p
                                    /\ p \notin G[v]
    <3>1. p \in On(h, d)
      BY <1>1, <1>8, <2>3, HeadOnStack
    <3>. QED
      BY <1>1, <1>2, <1>5, <3>1, OnStack
  <2>4. /\ r.at \in {"link", "pushCas", "follow", "popCas", "measure"} /\ r.p # Null =>
            /\ slot'[w] = r.p /\ Alive(r.p)
            /\ \A v \in Thread : /\ Building(reg[v]) => reg[v].mine # r.p
                                 /\ reg[v].at = "scan" /\ r.p \in G[v] =>
                                      w \in reg[v].todo \/ r.p \in reg[v].seen
    BY <2>1, <2>3
  <2>5. r.at # "validate" /\ r.at # "retire" /\ r.at # "scan" /\ r.at # "popCas" /\ r.at # "pushCas"
    BY <2>0, <2>1
  <2>. QED
    BY <1>1, <1>2, <1>4, <1>5, <2>1, <2>2, <2>4, <2>5, QuietReady
<1>. QED
  BY <1>6, <1>7, <1>8

\* pop reads next of the node it acquired: true as long as the node is on the stack.
LEMMA KeepsFollow ==
  ASSUME NEW h, NEW d, NEW G, Ready(h, d, G), NEW w \in Thread, Follow(w)
  PROVE  Ready(h, d, G)'
<1>1. /\ reg[w].at = "follow" /\ RegOK(reg[w]) /\ next \in [Node -> Ptr]
      /\ slot \in [Thread -> Ptr] /\ out \in [Thread -> Value \cup {Null}] /\ Shape(h, d, G)
  BY DEF Follow, Ready, HazptrTypes, ThreadTypes, HeapTypes
<1>2. PICK p : p = reg[w].p
  OBVIOUS
<1>3. reg[w].op = "pop" /\ p \in Node /\ p \in Ptr /\ p # Null
  BY <1>1, <1>2, HazptrAssumption DEF RegOK, Scanning, Ptr
<1> DEFINE r == Regs("popCas", "pop", next[p], p)
<1>4. RegOK(r) /\ r.at = "popCas" /\ r.mine = next[p] /\ r.p = p /\ ~ Building(r)
  BY <1>1, <1>3, RegsOK DEF Places
<1>5. reg' = [reg EXCEPT ![w] = r]
  BY <1>2, <1>3 DEF Follow
<1> HIDE DEF r
<1>6. ~ Building(reg[w]) /\ Guards(w)
  BY <1>1, <1>2, <1>3 DEF Building, Guards
<1>7. UNCHANGED <<head, heap, retired, work, arrived, slot, out>>
  BY DEF Follow, KeepHeap, KeepGarbage
<1>8. /\ slot'[w] = p /\ Alive(p)
      /\ \A v \in Thread : /\ Building(reg[v]) => reg[v].mine # p
                           /\ reg[v].at = "scan" /\ p \in G[v] =>
                                w \in reg[v].todo \/ p \in reg[v].seen
  BY <1>1, <1>2, <1>6, <1>7 DEF Shape, GuardShape
<1>. QED
  BY <1>1, <1>4, <1>5, <1>6, <1>7, <1>8, QuietReady

\* scan_slots reads one announcement: whoever was to be asked has been seen.
LEMMA KeepsScan ==
  ASSUME NEW h, NEW d, NEW G, Ready(h, d, G), NEW w \in Thread, Scan(w)
  PROVE  Ready(h, d, G)'
<1>1. /\ reg[w].at = "scan" /\ RegOK(reg[w]) /\ reg[w].todo # {}
      /\ slot \in [Thread -> Ptr] /\ out \in [Thread -> Value \cup {Null}] /\ Shape(h, d, G)
  BY DEF Scan, Ready, HazptrTypes, ThreadTypes
<1>2. PICK todo, seen : todo = reg[w].todo /\ seen = reg[w].seen
  OBVIOUS
<1>3. todo \subseteq Thread /\ seen \subseteq Ptr
  BY <1>1, <1>2 DEF RegOK, Places
<1>4. PICK o : o = CHOOSE x \in todo : \A y \in todo : x <= y
  OBVIOUS
<1>5. o \in todo
  <2>1. todo \in SUBSET Nat /\ todo # {}
    BY <1>1, <1>2, <1>3, HazptrAssumption
  <2>2. \E x \in todo : \A y \in todo : x <= y
    BY <2>1, LeastNat
  <2>. QED
    BY <1>4, <2>2
<1> DEFINE r == Scanning(todo \ {o}, seen \cup {slot[o]})
<1>6. /\ r.at = "scan" /\ r.todo = todo \ {o} /\ r.seen = seen \cup {slot[o]} /\ RegOK(r)
      /\ r.p = Null /\ ~ Building(r)
  <2>1. todo \ {o} \subseteq Thread /\ seen \cup {slot[o]} \subseteq Ptr
    BY <1>1, <1>3, <1>5
  <2>. QED
    BY <2>1 DEF Scanning, RegOK, Building
<1>7. reg' = [reg EXCEPT ![w] = r]
  BY <1>2, <1>4 DEF Scan
<1> HIDE DEF r
<1>8. ~ Building(reg[w])
  BY <1>1 DEF Building
<1>9. UNCHANGED <<head, heap, retired, work, arrived, slot, out>>
  BY DEF Scan, KeepHeap, KeepGarbage
<1>10. ASSUME NEW u \in Thread \ {w}, Guards(u), u \in reg[w].todo \/ reg[u].p \in reg[w].seen
       PROVE  u \in r.todo \/ reg[u].p \in r.seen
  <2>1. slot[u] = reg[u].p
    BY <1>1, <1>10 DEF Shape, GuardShape
  <2>. QED
    BY <1>2, <1>6, <1>10, <2>1
<1>. QED
  BY <1>1, <1>6, <1>7, <1>8, <1>9, <1>10, QuietReady

-----------------------------------------------------------------------------
(* Steps of a push.                                                        *)

\* What guards a node is a pointer to one.
LEMMA GuardedNode ==
  ASSUME ThreadTypes, NEW u \in Thread, Guards(u)
  PROVE  reg[u].p \in Node
<1>1. RegOK(reg[u]) /\ reg[u].at # "scan" /\ reg[u].p # Null
  BY DEF ThreadTypes, Guards
<1>. QED
  BY <1>1, RegFields DEF Ptr

\* Thread w writes the node n it is about to push, which nobody else can see.
LEMMA OwnNode ==
  ASSUME NEW h, NEW d, NEW G, Shape(h, d, G), ThreadTypes, NEW w \in Thread, NEW n \in Node,
         n \notin On(h, d), \A v \in Thread : n \notin G[v], \A u \in Thread \ {w} : Held(u) # n,
         \A u \in Thread : Guards(u) => reg[u].p # n,
         head' = head, retired' = retired, slot' = slot, Alive(n)',
         \A m \in Node : m # n => t'[m] = t[m] /\ next'[m] = next[m] /\ length'[m] = length[m],
         \A u \in Thread \ {w} : reg'[u] = reg[u],
         NEW r, r = reg'[w], Building(r), r.mine = n,
         Guards(w)' => Guards(w) /\ r.p = reg[w].p,
         r.at = "pushCas" => /\ next'[n] = r.p /\ r.p # n
                             /\ r.p = Null => length'[n] = 1
                             /\ r.p \in On(h, d) => length'[n] = length[r.p] + 1
  PROVE  Shape(h, d, G)'
<1>0. n # Null
  BY HazptrAssumption
<1>1. /\ \A m \in Node : m # n => (Alive(m)' <=> Alive(m))
      /\ \A m \in Node : Alive(m) => Alive(m)'
  BY DEF Alive
<1>2. StackShape(h, d)'
  <2>1. \A i \in 1 .. h : d[i] # n
    BY DEF On
  <2>. QED
    BY <1>1, <2>1 DEF Shape, StackShape
<1>3. Held(w)' = n /\ \A u \in Thread \ {w} : Held(u)' = Held(u)
  BY DEF Held
<1>4. HeldShape(On(h, d), G)'
  <2>1. ASSUME NEW u \in Thread, Held(u)' # Null
        PROVE  /\ Held(u)' \in Node /\ t'[Held(u)'] # Null /\ Held(u)' \notin On(h, d)
               /\ \A v \in Thread : Held(u)' \notin G[v]
    <3>1. CASE u = w
      BY <1>3, <3>1 DEF Alive
    <3>2. CASE u # w
      BY <1>1, <1>3, <2>1, <3>2 DEF Shape, HeldShape, Alive
    <3>. QED
      BY <3>1, <3>2
  <2>2. \A u, v \in Thread : u # v /\ Held(u)' = Held(v)' => Held(u)' = Null
    BY <1>3 DEF Shape, HeldShape
  <2>3. On(h, d)' = On(h, d)
    BY DEF On
  <2>. QED
    BY <2>1, <2>2, <2>3 DEF HeldShape, Alive
<1>5. GarbageShape(On(h, d), G)'
  <2>1. On(h, d)' = On(h, d)
    BY DEF On
  <2>. QED
    BY <1>1, <2>1 DEF Shape, GarbageShape
<1>6. GuardShape(G)'
  <2>1. SUFFICES ASSUME NEW u \in Thread, Guards(u)'
                 PROVE  /\ slot'[u] = reg'[u].p /\ t'[reg'[u].p] # Null
                        /\ \A v \in Thread :
                             /\ Building(reg'[v]) => reg'[v].mine # reg'[u].p
                             /\ reg'[v].at = "scan" /\ reg'[u].p \in G[v] =>
                                   u \in reg'[v].todo \/ reg'[u].p \in reg'[v].seen
    BY DEF GuardShape, Building, Alive
  <2>2. Guards(u) /\ reg'[u].p = reg[u].p
    BY <2>1 DEF Guards
  <2>3. /\ slot[u] = reg[u].p /\ Alive(reg[u].p) /\ reg[u].p # n
        /\ \A v \in Thread :
              /\ Building(reg[v]) => reg[v].mine # reg[u].p
              /\ reg[v].at = "scan" /\ reg[u].p \in G[v] =>
                    u \in reg[v].todo \/ reg[u].p \in reg[v].seen
    BY <2>2 DEF Shape, GuardShape
  <2>4. reg'[w].at # "scan" /\ reg[u].p \in Node
    BY <2>2, GuardedNode DEF Building
  <2>. QED
    BY <1>1, <2>2, <2>3, <2>4 DEF Alive
<1>7. CasShape(On(h, d))'
  <2>1. SUFFICES ASSUME NEW u \in Thread
                 PROVE  /\ reg'[u].at = "popCas" /\ reg'[u].p \in On(h, d) => reg'[u].mine = next'[reg'[u].p]
                        /\ reg'[u].at = "pushCas" =>
                             /\ next'[reg'[u].mine] = reg'[u].p
                             /\ reg'[u].p = Null => length'[reg'[u].mine] = 1
                             /\ reg'[u].p \in On(h, d) => length'[reg'[u].mine] = length'[reg'[u].p] + 1
    <3>1. On(h, d)' = On(h, d)
      BY DEF On
    <3>. QED
      BY <2>1, <3>1 DEF CasShape
  <2>0. \A m \in On(h, d) : m \in Node /\ m # n
    BY DEF On, Shape, StackShape
  <2>2. CASE u = w
    BY <2>0, <2>2 DEF Building
  <2>3. CASE u # w
    <3>1. reg'[u] = reg[u]
      BY <2>3
    <3>2. reg[u].at = "pushCas" => reg[u].mine # n /\ reg[u].mine \in Node
      <4>1. reg[u].at = "pushCas" => reg[u].op = "push"
        BY DEF ThreadTypes, RegOK, Scanning
      <4>. QED
        BY <2>3, <4>1 DEF Held, Building, ThreadTypes, RegOK, Scanning
    <3>3. reg[u].at = "popCas" => reg[u].p \in Node /\ reg[u].p # n
      <4>1. reg[u].at = "popCas" => reg[u].p \in Node
        BY DEF ThreadTypes, RegOK, Scanning
      <4>. QED
        BY <1>0, <4>1, HazptrAssumption DEF Guards
    <3>. QED
      BY <2>0, <3>1, <3>2, <3>3 DEF Shape, CasShape
  <2>. QED
    BY <2>2, <2>3
<1>. QED
  BY <1>2, <1>4, <1>5, <1>6, <1>7 DEF Shape

\* What thread w is pushing is hers alone.
LEMMA OwnsBuilding ==
  ASSUME NEW h, NEW d, NEW G, Ready(h, d, G), NEW w \in Thread, Building(reg[w])
  PROVE  /\ reg[w].mine \in Node /\ Alive(reg[w].mine) /\ reg[w].mine \notin On(h, d)
         /\ \A v \in Thread : reg[w].mine \notin G[v]
         /\ \A u \in Thread \ {w} : Held(u) # reg[w].mine
         /\ \A u \in Thread : Guards(u) => reg[u].p # reg[w].mine
<1>1. RegOK(reg[w]) /\ Shape(h, d, G)
  BY DEF Ready, HazptrTypes, ThreadTypes
<1>2. reg[w].mine \in Node
  BY <1>1 DEF RegOK, Scanning, Building
<1>3. Held(w) = reg[w].mine /\ Held(w) # Null
  BY <1>2, HazptrAssumption DEF Held
<1>. QED
  BY <1>1, <1>2, <1>3 DEF Shape, HeldShape, GuardShape

\* push takes a new node: a free one, which nobody else holds.
LEMMA KeepsBeginPush ==
  ASSUME NEW h, NEW d, NEW G, Ready(h, d, G), NEW w \in Thread, BeginPush(w)
  PROVE  Ready(h, d, G)' /\ \A i \in 1 .. h : t'[d[i]] = t[d[i]]
<1>1. /\ ThreadTypes /\ HeapTypes /\ Shape(h, d, G) /\ reg[w].at = "idle"
      /\ UNCHANGED <<head, slot, retired, work, out>> /\ arrived' = arrived \cup {w}
  BY DEF Ready, HazptrTypes, BeginPush
<1>2. PICK n \in Node, v \in Value :
        /\ ~ Alive(n) /\ t' = [t EXCEPT ![n] = v]
        /\ next' = [next EXCEPT ![n] = Null] /\ length' = [length EXCEPT ![n] = 1]
        /\ reg' = [reg EXCEPT ![w] = Regs("load", "push", n, Null)]
  BY DEF BeginPush
<1> DEFINE r == Regs("load", "push", n, Null)
<1>3. /\ RegOK(r) /\ r.at = "load" /\ r.op = "push" /\ r.mine = n /\ r.p = Null /\ Building(r)
  BY RegsOK DEF Ptr, Places
<1> HIDE DEF r
<1>4. /\ reg'[w] = r /\ DOMAIN reg' = DOMAIN reg /\ \A u \in Thread \ {w} : reg'[u] = reg[u]
  BY <1>1, <1>2 DEF r, ThreadTypes
<1>5. ThreadTypes'
  <2>1. /\ arrived \subseteq arrived' /\ arrived' \subseteq Thread /\ w \in arrived'
        /\ slot' \in [Thread -> Ptr] /\ out' \in [Thread -> Value \cup {Null}]
        /\ retired' \in [Thread -> Ptr] /\ work' \in [Thread -> Nat]
        /\ \A u \in Thread \ {w} : slot'[u] = slot[u]
    BY <1>1 DEF ThreadTypes
  <2>. QED
    BY <1>1, <1>3, <1>4, <2>1, ThreadMove
<1>6. HeapTypes'
  BY <1>1, <1>2 DEF HeapTypes, Ptr
<1>7. /\ t'[n] = v /\ v # Null
      /\ \A m \in Node : m # n => t'[m] = t[m] /\ next'[m] = next[m] /\ length'[m] = length[m]
  BY <1>1, <1>2, HazptrAssumption DEF HeapTypes
<1>8. /\ n \notin On(h, d) /\ \A u \in Thread : n \notin G[u]
      /\ \A u \in Thread : Held(u) # n
      /\ \A u \in Thread : Guards(u) => reg[u].p # n
  <2>1. n \notin On(h, d)
    BY <1>1, <1>2, OnStack
  <2>2. \A u \in Thread : n \notin G[u] /\ Held(u) # n /\ (Guards(u) => reg[u].p # n)
    BY <1>1, <1>2, HazptrAssumption DEF Shape, GarbageShape, HeldShape, GuardShape
  <2>. QED
    BY <2>1, <2>2
<1>9. Shape(h, d, G)'
  <2>1. Alive(n)' /\ ~ Guards(w)'
    BY <1>3, <1>4, <1>7 DEF Alive, Guards
  <2>2. \A u \in Thread \ {w} : Held(u) # n
    BY <1>8
  <2>3. head' = head /\ retired' = retired /\ slot' = slot /\ r = reg'[w] /\ r.at # "pushCas"
    BY <1>1, <1>3, <1>4
  <2>. QED
    BY <1>1, <1>3, <1>4, <1>7, <1>8, <2>1, <2>2, <2>3, OwnNode
<1>10. \A i \in 1 .. h : d[i] \in Node /\ d[i] # n
  BY <1>1, <1>8 DEF On, Shape, StackShape
<1>. QED
  BY <1>5, <1>6, <1>7, <1>9, <1>10 DEF Ready, HazptrTypes

\* push links its node to what it acquired.
LEMMA KeepsLink ==
  ASSUME NEW h, NEW d, NEW G, Ready(h, d, G), NEW w \in Thread, Link(w)
  PROVE  Ready(h, d, G)'
<1>1. /\ ThreadTypes /\ HeapTypes /\ Shape(h, d, G) /\ reg[w].at = "link" /\ RegOK(reg[w])
      /\ UNCHANGED <<head, t, slot, retired, work, arrived, out>> /\ w \in arrived
  BY DEF Ready, HazptrTypes, Link, KeepGarbage, ThreadTypes
<1>2. PICK n, p : n = reg[w].mine /\ p = reg[w].p
  OBVIOUS
<1>3. /\ reg[w].op = "push" /\ n \in Node /\ p \in Ptr /\ Building(reg[w])
  BY <1>1, <1>2, RegFields DEF RegOK, Scanning, Building
<1>4. /\ Alive(n) /\ n \notin On(h, d) /\ \A u \in Thread : n \notin G[u]
      /\ \A u \in Thread \ {w} : Held(u) # n
      /\ \A u \in Thread : Guards(u) => reg[u].p # n
  BY <1>2, <1>3, OwnsBuilding
<1> DEFINE r == Regs("pushCas", "push", n, p)
<1>5. /\ RegOK(r) /\ r.at = "pushCas" /\ r.op = "push" /\ r.mine = n /\ r.p = p /\ Building(r)
  BY <1>3, RegsOK DEF Ptr, Places
<1>6. /\ reg' = [reg EXCEPT ![w] = r]
      /\ next' = [next EXCEPT ![n] = p]
      /\ length' = [length EXCEPT ![n] = IF p = Null THEN 1 ELSE length[p] + 1]
  BY <1>1, <1>2, <1>3, RegFields DEF Link, Goto
<1> HIDE DEF r
<1>7. reg'[w] = r /\ DOMAIN reg' = DOMAIN reg /\ \A u \in Thread \ {w} : reg'[u] = reg[u]
  BY <1>1, <1>6 DEF ThreadTypes
<1>8. ThreadTypes'
  <2>1. /\ arrived \subseteq arrived' /\ arrived' \subseteq Thread /\ w \in arrived'
        /\ slot' \in [Thread -> Ptr] /\ out' \in [Thread -> Value \cup {Null}]
        /\ retired' \in [Thread -> Ptr] /\ work' \in [Thread -> Nat]
        /\ \A u \in Thread \ {w} : slot'[u] = slot[u]
    BY <1>1 DEF ThreadTypes
  <2>. QED
    BY <1>1, <1>5, <1>7, <2>1, ThreadMove
<1>9. HeapTypes'
  <2>1. (IF p = Null THEN 1 ELSE length[p] + 1) \in Nat
    BY <1>1, <1>3 DEF HeapTypes, Ptr
  <2>. QED
    BY <1>1, <1>3, <1>6, <2>1 DEF HeapTypes
<1>10. /\ next'[n] = p /\ length'[n] = IF p = Null THEN 1 ELSE length[p] + 1
       /\ \A m \in Node : m # n => t'[m] = t[m] /\ next'[m] = next[m] /\ length'[m] = length[m]
  BY <1>1, <1>3, <1>6 DEF HeapTypes
<1>11. Guards(w)' => Guards(w) /\ r.p = reg[w].p
  BY <1>1, <1>2, <1>5, <1>7 DEF Guards
<1>12. p # n /\ (p \in On(h, d) => p # Null)
  <2>1. p # Null => Guards(w)
    BY <1>1, <1>2 DEF Guards
  <2>2. p # n
    BY <1>2, <1>3, <1>4, <2>1, HazptrAssumption
  <2>3. Null \notin On(h, d)
    BY <1>1, HazptrAssumption DEF On, Shape, StackShape
  <2>. QED
    BY <2>2, <2>3
<1>13. Shape(h, d, G)'
  <2>1. Alive(n)'
    BY <1>1, <1>4 DEF Alive
  <2>2. /\ next'[n] = r.p /\ r.p # n
        /\ r.p = Null => length'[n] = 1
        /\ r.p \in On(h, d) => length'[n] = length[r.p] + 1
    BY <1>5, <1>10, <1>12
  <2>3. head' = head /\ retired' = retired /\ slot' = slot /\ r = reg'[w]
    BY <1>1, <1>7
  <2>. QED
    BY <1>1, <1>3, <1>4, <1>5, <1>7, <1>10, <1>11, <2>1, <2>2, <2>3, OwnNode
<1>. QED
  BY <1>8, <1>9, <1>13 DEF Ready, HazptrTypes

\* The swap of a push: the node is the new top, or holds what head is and starts again.
LEMMA KeepsPushCas ==
  ASSUME NEW h, NEW d, NEW G, Ready(h, d, G), NEW w \in Thread, PushCas(w)
  PROVE  \/ Ready(h, d, G)'
         \/ \E e : Ready(h + 1, e, G)' /\ \A i \in 1 .. h : e[i] = d[i]
<1>1. /\ ThreadTypes /\ HeapTypes /\ Shape(h, d, G) /\ reg[w].at = "pushCas" /\ RegOK(reg[w])
      /\ UNCHANGED <<t, length, slot, retired, work, arrived, out>> /\ w \in arrived
  BY DEF Ready, HazptrTypes, PushCas, KeepGarbage, ThreadTypes
<1>2. PICK n, p : n = reg[w].mine /\ p = reg[w].p
  OBVIOUS
<1>3. /\ reg[w].op = "push" /\ n \in Node /\ p \in Ptr /\ Building(reg[w])
  BY <1>1, <1>2, RegFields DEF RegOK, Scanning, Building
<1>4. /\ Alive(n) /\ n \notin On(h, d) /\ \A u \in Thread : n \notin G[u]
      /\ \A u \in Thread \ {w} : Held(u) # n
      /\ \A u \in Thread : Guards(u) => reg[u].p # n
  BY <1>2, <1>3, OwnsBuilding
<1>5. /\ \A u \in Thread \ {w} : reg'[u] = reg[u]
      /\ DOMAIN reg' = DOMAIN reg
  BY <1>1 DEF PushCas, Goto, ThreadTypes
<1>6. ASSUME NEW r, reg'[w] = r, RegOK(r), r.at # "validate"
      PROVE  ThreadTypes'
  <2>1. /\ arrived \subseteq arrived' /\ arrived' \subseteq Thread /\ w \in arrived'
        /\ slot' \in [Thread -> Ptr] /\ out' \in [Thread -> Value \cup {Null}]
        /\ retired' \in [Thread -> Ptr] /\ work' \in [Thread -> Nat]
        /\ \A u \in Thread \ {w} : slot'[u] = slot[u]
    BY <1>1 DEF ThreadTypes
  <2>. QED
    BY <1>1, <1>5, <1>6, <2>1, ThreadMove
<1>7. ASSUME next' = [next EXCEPT ![n] = head], Goto(w, "load"), UNCHANGED head
      PROVE  Ready(h, d, G)'
  <2> DEFINE r == Regs("load", "push", n, p)
  <2>1. /\ RegOK(r) /\ r.at = "load" /\ r.op = "push" /\ r.mine = n /\ r.p = p /\ Building(r)
    BY <1>3, RegsOK DEF Ptr, Places
  <2>2. reg'[w] = r
    BY <1>1, <1>2, <1>3, <1>7, RegFields, SMTT(30) DEF Goto, ThreadTypes
  <2> HIDE DEF r
  <2>3. ThreadTypes'
    BY <1>6, <2>1, <2>2
  <2>4. HeapTypes'
    BY <1>1, <1>3, <1>7 DEF HeapTypes
  <2>5. Alive(n)' /\ ~ Guards(w)'
    BY <1>1, <1>4, <2>1, <2>2 DEF Alive, Guards
  <2>6. \A m \in Node : m # n => t'[m] = t[m] /\ next'[m] = next[m] /\ length'[m] = length[m]
    BY <1>1, <1>7 DEF HeapTypes
  <2>7. head' = head /\ retired' = retired /\ slot' = slot /\ r = reg'[w] /\ r.at # "pushCas"
    BY <1>1, <1>7, <2>1, <2>2
  <2>8. Shape(h, d, G)'
    BY <1>1, <1>3, <1>4, <1>5, <2>1, <2>5, <2>6, <2>7, OwnNode
  <2>. QED
    BY <2>3, <2>4, <2>8 DEF Ready, HazptrTypes
<1>8. ASSUME head = next[n], head' = n, Goto(w, "release"), UNCHANGED next
      PROVE  \E e : Ready(h + 1, e, G)' /\ \A i \in 1 .. h : e[i] = d[i]
  <2> DEFINE r == Regs("release", "push", n, p)
  <2>1. /\ RegOK(r) /\ r.at = "release" /\ r.op = "push" /\ ~ Building(r)
    BY <1>3, RegsOK DEF Ptr, Places
  <2>2. reg'[w] = r
    BY <1>1, <1>2, <1>3, <1>8, RegFields, SMTT(30) DEF Goto, ThreadTypes
  <2> HIDE DEF r
  <2>3. ThreadTypes'
    BY <1>6, <2>1, <2>2
  <2>4. HeapTypes'
    BY <1>1, <1>3, <1>8 DEF HeapTypes, Ptr
  <2>5. /\ h \in Nat /\ d \in [0 .. h -> Ptr] /\ d[0] = Null /\ head = d[h]
        /\ \A i \in 1 .. h : /\ d[i] \in Node /\ Alive(d[i])
                             /\ next[d[i]] = d[i - 1] /\ length[d[i]] = i
        /\ \A i, j \in 1 .. h : d[i] = d[j] => i = j
    BY <1>1 DEF Shape, StackShape
  <2>5a. /\ h \in Nat /\ h + 1 - 1 = h /\ h \in 0 .. h /\ h + 1 \in 1 .. h + 1
         /\ \A i \in 1 .. h + 1 : i = h + 1 \/ (i \in 1 .. h /\ i \in 0 .. h)
         /\ \A i \in 1 .. h : i \in 1 .. h + 1 /\ i \in 0 .. h
         /\ h # 0 => h \in 1 .. h
    <3>1. h \in Nat
      BY <2>5
    <3>. QED
      BY <3>1
  <2>6. next[n] = p /\ (p = Null => length[n] = 1) /\ (p \in On(h, d) => length[n] = length[p] + 1)
    BY <1>1, <1>2 DEF Shape, CasShape
  <2>7. length[n] = h + 1
    <3>1. CASE h = 0
      <4>1. p = Null
        BY <1>8, <2>5, <2>6, <3>1
      <4>. QED
        BY <2>6, <3>1, <4>1
    <3>2. CASE h # 0
      <4>1. h \in 1 .. h /\ p = d[h]
        BY <1>8, <2>5, <2>6, <2>5a, <3>2
      <4>2. length[p] = h /\ p \in On(h, d)
        BY <2>5, <4>1 DEF On
      <4>. QED
        BY <2>6, <4>2
    <3>. QED
      BY <3>1, <3>2
  <2>8. PICK e : e = [i \in 0 .. h + 1 |-> IF i = h + 1 THEN n ELSE d[i]]
    OBVIOUS
  <2>9. /\ e[h + 1] = n /\ \A i \in 0 .. h : e[i] = d[i]
        /\ e \in [0 .. h + 1 -> Ptr]
    BY <1>3, <2>5, <2>8 DEF Ptr
  <2>10. /\ \A m : Alive(m)' <=> Alive(m)
         /\ On(h + 1, e) = On(h, d) \cup {n} /\ On(h + 1, e)' = On(h + 1, e)
    <3>1. On(h + 1, e) = On(h, d) \cup {n}
      BY <2>9, <2>5a DEF On
    <3>. QED
      BY <1>1, <3>1 DEF Alive, On
  <2>11. StackShape(h + 1, e)'
    <3>1. ASSUME NEW i \in 1 .. h + 1
          PROVE  /\ e[i] \in Node /\ Alive(e[i])'
                 /\ next'[e[i]] = e[i - 1] /\ length'[e[i]] = i
      <4>1. CASE i = h + 1
        <5>1. e[i] = n /\ e[i - 1] = next[n]
          BY <1>8, <2>5, <2>9, <2>5a, <4>1
        <5>. QED
          BY <1>1, <1>3, <1>4, <1>8, <2>7, <2>10, <4>1, <5>1
      <4>2. CASE i \in 1 .. h
        <5>1. i \in 0 .. h /\ i - 1 \in 0 .. h
          BY <2>5, <4>2
        <5>. QED
          BY <1>1, <1>8, <2>5, <2>9, <2>10, <4>2, <5>1
      <4>. QED
        BY <2>5a, <4>1, <4>2
    <3>2. ASSUME NEW i \in 1 .. h + 1, NEW j \in 1 .. h + 1, e[i] = e[j]
          PROVE  i = j
      <4>1. \A k \in 1 .. h : d[k] # n
        BY <1>4 DEF On
      <4>. QED
        BY <2>5, <2>9, <2>5a, <3>2, <4>1
    <3>3. h + 1 \in Nat /\ e[0] = Null /\ head' = e[h + 1]
      BY <1>8, <2>5, <2>9
    <3>. QED
      BY <2>9, <3>1, <3>2, <3>3 DEF StackShape
  <2>12. /\ Held(w)' = Null /\ \A u \in Thread \ {w} : Held(u)' = Held(u)
    BY <1>5, <2>1, <2>2 DEF Held
  <2>13. HeldShape(On(h + 1, e), G)'
    <3>1. ASSUME NEW u \in Thread, Held(u)' # Null
          PROVE  /\ Held(u)' = Held(u) /\ Held(u) \in Node /\ Alive(Held(u)) /\ Held(u) \notin On(h + 1, e)
                 /\ \A v \in Thread : Held(u) \notin G[v]
      <4>1. u # w /\ Held(u)' = Held(u)
        BY <2>12, <3>1
      <4>2. Held(u) # n
        BY <1>4, <4>1
      <4>. QED
        BY <1>1, <2>10, <3>1, <4>1, <4>2 DEF Shape, HeldShape
    <3>2. \A u, v \in Thread : u # v /\ Held(u)' = Held(v)' => Held(u)' = Null
      BY <1>1, <2>12 DEF Shape, HeldShape
    <3>. QED
      BY <1>1, <2>10, <3>1, <3>2 DEF HeldShape, Alive
  <2>14. GarbageShape(On(h + 1, e), G)'
    BY <1>1, <1>4, <1>8, <2>10 DEF Shape, GarbageShape
  <2>15. GuardShape(G)'
    <3>1. SUFFICES ASSUME NEW u \in Thread, Guards(u)'
                   PROVE  /\ slot'[u] = reg'[u].p /\ t'[reg'[u].p] # Null
                          /\ \A v \in Thread :
                               /\ Building(reg'[v]) => reg'[v].mine # reg'[u].p
                               /\ reg'[v].at = "scan" /\ reg'[u].p \in G[v] =>
                                     u \in reg'[v].todo \/ reg'[u].p \in reg'[v].seen
      BY DEF GuardShape, Building, Alive
    <3>2. u # w /\ reg'[u] = reg[u] /\ Guards(u)
      BY <1>5, <2>1, <2>2, <3>1 DEF Guards
    <3>. QED
      BY <1>1, <1>5, <2>1, <2>2, <3>2 DEF Shape, GuardShape, Alive
  <2>16. CasShape(On(h + 1, e))'
    <3>1. SUFFICES ASSUME NEW u \in Thread
                   PROVE  /\ reg'[u].at = "popCas" /\ reg'[u].p \in On(h, d) \cup {n} =>
                                reg'[u].mine = next'[reg'[u].p]
                          /\ reg'[u].at = "pushCas" =>
                               /\ next'[reg'[u].mine] = reg'[u].p
                               /\ reg'[u].p = Null => length'[reg'[u].mine] = 1
                               /\ reg'[u].p \in On(h, d) \cup {n} =>
                                    length'[reg'[u].mine] = length'[reg'[u].p] + 1
      BY <2>10 DEF CasShape
    <3>2. CASE u = w
      BY <2>1, <2>2, <3>2
    <3>3. CASE u # w
      <4>1. reg'[u] = reg[u]
        BY <1>5, <3>3
      <4>2. reg[u].at \in {"pushCas", "popCas"} => reg[u].p # n
        BY <1>3, <1>4, HazptrAssumption DEF Guards
      <4>. QED
        BY <1>1, <1>8, <4>1, <4>2 DEF Shape, CasShape
    <3>. QED
      BY <3>2, <3>3
  <2>17. Shape(h + 1, e, G)'
    BY <2>11, <2>13, <2>14, <2>15, <2>16 DEF Shape
  <2>18. \A i \in 1 .. h : e[i] = d[i]
    BY <2>5, <2>9
  <2>. QED
    BY <2>3, <2>4, <2>17, <2>18 DEF Ready, HazptrTypes
<1>. QED
  BY <1>2, <1>7, <1>8 DEF PushCas

-----------------------------------------------------------------------------
(* Steps of a pop.                                                         *)

\* The swap of a pop: the top comes off and is the thread's, or it starts again.
LEMMA KeepsPopCas ==
  ASSUME NEW h, NEW d, NEW G, Ready(h, d, G), NEW w \in Thread, PopCas(w)
  PROVE  \/ Ready(h, d, G)' /\ UNCHANGED <<head, out>>
         \/ /\ h \in Nat \ {0} /\ out' = [out EXCEPT ![w] = t[d[h]]]
            /\ \E e : Ready(h - 1, e, G)' /\ \A i \in 1 .. h - 1 : e[i] = d[i]
<1>1. /\ ThreadTypes /\ HeapTypes /\ Shape(h, d, G) /\ reg[w].at = "popCas" /\ RegOK(reg[w])
      /\ UNCHANGED <<heap, slot, retired, work, arrived>> /\ w \in arrived
      /\ t' = t /\ next' = next /\ length' = length
      /\ slot \in [Thread -> Ptr] /\ out \in [Thread -> Value \cup {Null}]
  BY DEF Ready, HazptrTypes, PopCas, KeepGarbage, KeepHeap, ThreadTypes, heap
<1>2. PICK n, p : n = reg[w].mine /\ p = reg[w].p
  OBVIOUS
<1>3. /\ reg[w].op = "pop" /\ n \in Ptr /\ p \in Node /\ p # Null /\ p \in Ptr
      /\ ~ Building(reg[w]) /\ Guards(w)
  BY <1>1, <1>2, RegFields, HazptrAssumption DEF RegOK, Scanning, Building, Guards, Ptr
<1>4. ASSUME Goto(w, "load"), UNCHANGED <<head, out>>
      PROVE  Ready(h, d, G)'
  <2> DEFINE r == Regs("load", "pop", n, p)
  <2>1. /\ RegOK(r) /\ r.at = "load" /\ ~ Building(r)
    BY <1>3, RegsOK DEF Places
  <2>2. reg' = [reg EXCEPT ![w] = r]
    BY <1>1, <1>2, <1>3, <1>4, RegFields DEF Goto
  <2> HIDE DEF r
  <2>. QED
    BY <1>1, <1>3, <1>4, <2>1, <2>2, QuietReady
<1>5. ASSUME head = p, head' = n, out' = [out EXCEPT ![w] = t[p]], Goto(w, "retire")
      PROVE  /\ h \in Nat \ {0} /\ out' = [out EXCEPT ![w] = t[d[h]]]
             /\ \E e : Ready(h - 1, e, G)' /\ \A i \in 1 .. h - 1 : e[i] = d[i]
  <2> DEFINE r == Regs("retire", "pop", n, p)
  <2>1. /\ RegOK(r) /\ r.at = "retire" /\ r.p = p /\ ~ Building(r)
    BY <1>3, RegsOK DEF Places
  <2>2. /\ reg'[w] = r /\ DOMAIN reg' = DOMAIN reg
        /\ \A u \in Thread \ {w} : reg'[u] = reg[u]
    BY <1>1, <1>2, <1>3, <1>5, RegFields, SMTT(30) DEF Goto, ThreadTypes
  <2> HIDE DEF r
  <2>3. ThreadTypes'
    <3>1. /\ arrived \subseteq arrived' /\ arrived' \subseteq Thread /\ w \in arrived'
          /\ slot' \in [Thread -> Ptr] /\ out' \in [Thread -> Value \cup {Null}]
          /\ retired' \in [Thread -> Ptr] /\ work' \in [Thread -> Nat]
          /\ \A u \in Thread \ {w} : slot'[u] = slot[u]
      BY <1>1, <1>3, <1>5 DEF ThreadTypes, HeapTypes
    <3>. QED
      BY <1>1, <2>1, <2>2, <3>1, ThreadMove
  <2>4. HeapTypes'
    BY <1>1, <1>3, <1>5 DEF HeapTypes
  <2>5. /\ h \in Nat /\ d \in [0 .. h -> Ptr] /\ d[0] = Null /\ head = d[h]
        /\ \A i \in 1 .. h : /\ d[i] \in Node /\ Alive(d[i])
                             /\ next[d[i]] = d[i - 1] /\ length[d[i]] = i
        /\ \A i, j \in 1 .. h : d[i] = d[j] => i = j
    BY <1>1 DEF Shape, StackShape
  <2>6. h # 0
    BY <1>3, <1>5, <2>5
  <2>7. /\ h \in Nat \ {0} /\ h \in 1 .. h /\ h - 1 \in Nat /\ h - 1 \in 0 .. h
        /\ \A i \in 0 .. h - 1 : i \in 0 .. h
        /\ \A i \in 1 .. h - 1 : i \in 1 .. h /\ i \in 0 .. h - 1 /\ i - 1 \in 0 .. h - 1 /\ i # h
        /\ \A i \in 1 .. h : i = h \/ i \in 1 .. h - 1
    <3>1. h \in Nat
      BY <2>5
    <3>. QED
      BY <2>6, <3>1
  <2>8. p = d[h] /\ p \in On(h, d)
    BY <1>5, <2>5, <2>7 DEF On
  <2>9. n = d[h - 1]
    <3>1. n = next[p]
      BY <1>1, <1>2, <2>8 DEF Shape, CasShape
    <3>. QED
      BY <2>5, <2>7, <2>8, <3>1
  <2>10. PICK e : e = [i \in 0 .. h - 1 |-> d[i]]
    OBVIOUS
  <2>11. (\A i \in 0 .. h - 1 : e[i] = d[i]) /\ e \in [0 .. h - 1 -> Ptr] /\ (\A i \in 1 .. h - 1 : e[i] = d[i])
    <3>1. \A i \in 0 .. h - 1 : e[i] = d[i] /\ d[i] \in Ptr
      BY <2>5, <2>7, <2>10
    <3>. QED
      BY <2>7, <2>10, <3>1
  <2>12. /\ \A m : Alive(m)' <=> Alive(m)
         /\ On(h - 1, e) = On(h, d) \ {p} /\ On(h - 1, e)' = On(h - 1, e)
    <3>1. On(h - 1, e) = On(h, d) \ {p}
      <4>1. \A i \in 1 .. h - 1 : d[i] # p
        BY <2>5, <2>7, <2>8
      <4>. QED
        BY <2>7, <2>8, <2>11, <4>1 DEF On
    <3>. QED
      BY <1>1, <3>1 DEF Alive, On
  <2>13. StackShape(h - 1, e)'
    <3>1. ASSUME NEW i \in 1 .. h - 1
          PROVE  /\ e[i] \in Node /\ Alive(e[i])'
                 /\ next'[e[i]] = e[i - 1] /\ length'[e[i]] = i
      <4>1. e[i] = d[i] /\ e[i - 1] = d[i - 1] /\ i \in 1 .. h
        BY <2>7, <2>11
      <4>. QED
        BY <1>1, <2>5, <2>12, <4>1
    <3>2. \A i, j \in 1 .. h - 1 : e[i] = e[j] => i = j
      BY <2>5, <2>7, <2>11
    <3>3. h - 1 \in Nat /\ e[0] = Null /\ head' = e[h - 1]
      BY <1>5, <2>5, <2>7, <2>9, <2>11
    <3>. QED
      BY <2>11, <3>1, <3>2, <3>3 DEF StackShape
  <2>14. /\ Held(w)' = p /\ \A u \in Thread \ {w} : Held(u)' = Held(u)
    BY <2>1, <2>2 DEF Held
  <2>15. HeldShape(On(h - 1, e), G)'
    <3>1. ASSUME NEW u \in Thread, Held(u)' # Null
          PROVE  /\ Held(u)' \in Node /\ t'[Held(u)'] # Null /\ Held(u)' \notin On(h - 1, e)
                 /\ \A v \in Thread : Held(u)' \notin G[v]
      <4>1. CASE u = w
        BY <1>1, <2>8, <2>12, <2>14, <4>1, OnStack DEF Alive
      <4>2. CASE u # w
        BY <1>1, <2>12, <2>14, <3>1, <4>2 DEF Shape, HeldShape, Alive
      <4>. QED
        BY <4>1, <4>2
    <3>2. \A u \in Thread : Held(u) # p
      BY <1>1, <2>8, OnStack
    <3>3. \A u, v \in Thread : u # v /\ Held(u)' = Held(v)' => Held(u)' = Null
      BY <1>1, <2>14, <3>2 DEF Shape, HeldShape
    <3>. QED
      BY <1>1, <2>12, <3>1, <3>3 DEF HeldShape, Alive
  <2>16. GarbageShape(On(h - 1, e), G)'
    BY <1>1, <2>12 DEF Shape, GarbageShape
  <2>17. GuardShape(G)'
    <3>1. SUFFICES ASSUME NEW u \in Thread, Guards(u)'
                   PROVE  /\ slot'[u] = reg'[u].p /\ t'[reg'[u].p] # Null
                          /\ \A v \in Thread :
                               /\ Building(reg'[v]) => reg'[v].mine # reg'[u].p
                               /\ reg'[v].at = "scan" /\ reg'[u].p \in G[v] =>
                                     u \in reg'[v].todo \/ reg'[u].p \in reg'[v].seen
      BY DEF GuardShape, Building, Alive
    <3>2. u # w /\ reg'[u] = reg[u] /\ Guards(u)
      BY <2>1, <2>2, <3>1 DEF Guards
    <3>. QED
      BY <1>1, <2>1, <2>2, <3>2 DEF Shape, GuardShape, Alive
  <2>18. CasShape(On(h - 1, e))'
    <3>1. SUFFICES ASSUME NEW u \in Thread
                   PROVE  /\ reg'[u].at = "popCas" /\ reg'[u].p \in On(h, d) =>
                                reg'[u].mine = next'[reg'[u].p]
                          /\ reg'[u].at = "pushCas" =>
                               /\ next'[reg'[u].mine] = reg'[u].p
                               /\ reg'[u].p = Null => length'[reg'[u].mine] = 1
                               /\ reg'[u].p \in On(h, d) =>
                                    length'[reg'[u].mine] = length'[reg'[u].p] + 1
      BY <2>12 DEF CasShape
    <3>2. CASE u = w
      BY <2>1, <2>2, <3>2
    <3>3. CASE u # w
      BY <1>1, <2>2, <3>3 DEF Shape, CasShape
    <3>. QED
      BY <3>2, <3>3
  <2>19. Shape(h - 1, e, G)'
    BY <2>13, <2>15, <2>16, <2>17, <2>18 DEF Shape
  <2>. QED
    BY <1>5, <2>3, <2>4, <2>7, <2>8, <2>11, <2>19 DEF Ready, HazptrTypes
<1>6. \/ /\ head = p /\ head' = n /\ out' = [out EXCEPT ![w] = t[p]] /\ Goto(w, "retire")
      \/ Goto(w, "load") /\ UNCHANGED <<head, out>>
  BY <1>2 DEF PopCas
<1>. QED
  BY <1>4, <1>5, <1>6

\* retire: the node goes to the thread's retired nodes; a collection starts with everybody to ask.
LEMMA KeepsRetire ==
  ASSUME NEW h, NEW d, NEW G, Ready(h, d, G), NEW w \in Thread, Retire(w)
  PROVE  \E X : Ready(h, d, X)'
<1>1. /\ ThreadTypes /\ HeapTypes /\ Shape(h, d, G) /\ reg[w].at = "retire" /\ RegOK(reg[w])
      /\ UNCHANGED <<head, t, length, slot, arrived, out>> /\ w \in arrived
  BY DEF Ready, HazptrTypes, Retire, ThreadTypes
<1>2. PICK n, p : n = reg[w].mine /\ p = reg[w].p
  OBVIOUS
<1>3. /\ reg[w].op = "pop" /\ n \in Ptr /\ p \in Node /\ p # Null /\ p \in Ptr
      /\ Held(w) = p
  BY <1>1, <1>2, RegFields, HazptrAssumption DEF RegOK, Scanning, Building, Held, Ptr
<1>4. /\ Alive(p) /\ p \notin On(h, d) /\ \A v \in Thread : p \notin G[v]
      /\ \A u \in Thread \ {w} : Held(u) # p
  BY <1>1, <1>3 DEF Shape, HeldShape
<1>5. /\ next' = [next EXCEPT ![p] = retired[w]] /\ retired' = [retired EXCEPT ![w] = p]
      /\ next \in [Node -> Ptr] /\ retired \in [Thread -> Ptr]
  BY <1>1, <1>2 DEF Retire, HeapTypes, ThreadTypes
<1>6. PICK r : /\ reg'[w] = r /\ RegOK(r) /\ r.at \in {"release", "scan"} /\ ~ Building(r)
               /\ r.at = "scan" => r.todo = arrived
  <2> DEFINE a == Regs("release", "pop", n, p)
             b == Scanning(arrived, {})
  <2>1. RegOK(a) /\ a.at = "release" /\ ~ Building(a)
    BY <1>3, RegsOK DEF Places
  <2>2. RegOK(b) /\ b.at = "scan" /\ b.todo = arrived /\ ~ Building(b)
    BY <1>1 DEF RegOK, Scanning, Building, ThreadTypes
  <2>3. reg'[w] = a \/ reg'[w] = b
    <3>1. [reg[w] EXCEPT !.at = "release"] = a
      BY <1>1, <1>2, <1>3, RegFields
    <3>. QED
      BY <1>1, <3>1 DEF Retire, Goto, ThreadTypes
  <2> HIDE DEF a, b
  <2>. QED
    BY <2>1, <2>2, <2>3
<1>7. /\ DOMAIN reg' = DOMAIN reg /\ \A u \in Thread \ {w} : reg'[u] = reg[u]
      /\ work' \in [Thread -> Nat]
  BY <1>1 DEF Retire, Goto, ThreadTypes
<1>8. ThreadTypes'
  <2>1. /\ arrived \subseteq arrived' /\ arrived' \subseteq Thread /\ w \in arrived'
        /\ slot' \in [Thread -> Ptr] /\ out' \in [Thread -> Value \cup {Null}]
        /\ retired' \in [Thread -> Ptr]
        /\ \A u \in Thread \ {w} : slot'[u] = slot[u]
    BY <1>1, <1>3, <1>5 DEF ThreadTypes
  <2>. QED
    BY <1>1, <1>6, <1>7, <2>1, ThreadMove
<1>9. HeapTypes'
  BY <1>1, <1>3, <1>5 DEF HeapTypes
<1>10. PICK X : X = [G EXCEPT ![w] = @ \cup {p}]
  OBVIOUS
<1>11. /\ X \in [Thread -> SUBSET Node] /\ X[w] = G[w] \cup {p}
       /\ \A u \in Thread \ {w} : X[u] = G[u]
  BY <1>1, <1>3, <1>10 DEF Shape, GarbageShape
<1>12. /\ \A m \in Node : m # p => next'[m] = next[m]
       /\ next'[p] = retired[w] /\ retired'[w] = p /\ \A u \in Thread \ {w} : retired'[u] = retired[u]
       /\ \A m : Alive(m)' <=> Alive(m)
       /\ On(h, d)' = On(h, d)
  BY <1>1, <1>3, <1>5 DEF Alive, On
<1>13. StackShape(h, d)'
  <2>1. \A i \in 1 .. h : d[i] # p
    BY <1>4 DEF On
  <2>. QED
    BY <1>1, <1>12, <2>1 DEF Shape, StackShape
<1>14. /\ Held(w)' = Null /\ \A u \in Thread \ {w} : Held(u)' = Held(u)
  BY <1>6, <1>7 DEF Held
<1>15. HeldShape(On(h, d), X)'
  <2>1. ASSUME NEW u \in Thread, Held(u)' # Null
        PROVE  /\ Held(u)' \in Node /\ t'[Held(u)'] # Null /\ Held(u)' \notin On(h, d)
               /\ \A v \in Thread : Held(u)' \notin X[v]
    <3>1. u # w /\ Held(u)' = Held(u) /\ Held(u) # p
      BY <1>4, <1>14, <2>1
    <3>. QED
      BY <1>1, <1>11, <2>1, <3>1 DEF Shape, HeldShape, Alive
  <2>2. \A u, v \in Thread : u # v /\ Held(u)' = Held(v)' => Held(u)' = Null
    BY <1>1, <1>14 DEF Shape, HeldShape
  <2>. QED
    BY <1>12, <2>1, <2>2 DEF HeldShape, Alive
<1>16. GarbageShape(On(h, d), X)'
  <2>1. ASSUME NEW u \in Thread
        PROVE  /\ retired'[u] \in X[u] \cup {Null}
               /\ \A m \in X[u] : Alive(m) /\ m \notin On(h, d) /\ next'[m] \in X[u] \cup {Null}
    <3>1. /\ retired[u] \in G[u] \cup {Null}
          /\ \A m \in G[u] : m \in Node /\ Alive(m) /\ m \notin On(h, d) /\ next[m] \in G[u] \cup {Null}
      BY <1>1 DEF Shape, GarbageShape
    <3>2. CASE u = w
      BY <1>4, <1>11, <1>12, <3>1, <3>2
    <3>3. CASE u # w
      BY <1>4, <1>11, <1>12, <3>1, <3>3
    <3>. QED
      BY <3>2, <3>3
  <2>2. \A u, v \in Thread : u # v => X[u] \cap X[v] = {}
    BY <1>1, <1>4, <1>11 DEF Shape, GarbageShape
  <2>. QED
    BY <1>11, <1>12, <2>1, <2>2 DEF GarbageShape
<1>17. GuardShape(X)'
  <2>1. SUFFICES ASSUME NEW u \in Thread, Guards(u)'
                 PROVE  /\ slot'[u] = reg'[u].p /\ t'[reg'[u].p] # Null
                        /\ \A v \in Thread :
                             /\ Building(reg'[v]) => reg'[v].mine # reg'[u].p
                             /\ reg'[v].at = "scan" /\ reg'[u].p \in X[v] =>
                                   u \in reg'[v].todo \/ reg'[u].p \in reg'[v].seen
    BY DEF GuardShape, Building, Alive
  <2>2. u # w /\ reg'[u] = reg[u] /\ Guards(u)
    BY <1>6, <1>7, <2>1 DEF Guards
  <2>3. u \in arrived
    BY <1>1, <2>2 DEF Guards, ThreadTypes
  <2>. QED
    BY <1>1, <1>6, <1>7, <1>11, <2>2, <2>3 DEF Shape, GuardShape, Alive
<1>18. CasShape(On(h, d))'
  <2>1. SUFFICES ASSUME NEW u \in Thread
                 PROVE  /\ reg'[u].at = "popCas" /\ reg'[u].p \in On(h, d) =>
                              reg'[u].mine = next'[reg'[u].p]
                        /\ reg'[u].at = "pushCas" =>
                             /\ next'[reg'[u].mine] = reg'[u].p
                             /\ reg'[u].p = Null => length'[reg'[u].mine] = 1
                             /\ reg'[u].p \in On(h, d) =>
                                  length'[reg'[u].mine] = length'[reg'[u].p] + 1
    BY <1>12 DEF CasShape
  <2>2. CASE u = w
    BY <1>6, <2>2
  <2>3. CASE u # w
    <3>1. reg'[u] = reg[u]
      BY <1>7, <2>3
    <3>2. reg[u].at = "pushCas" => reg[u].mine # p /\ reg[u].mine \in Node
      <4>1. reg[u].at = "pushCas" => reg[u].op = "push"
        BY <1>1 DEF ThreadTypes, RegOK, Scanning
      <4>. QED
        BY <1>1, <1>4, <2>3, <4>1 DEF Held, Building, ThreadTypes, RegOK, Scanning
    <3>3. \A m \in On(h, d) : m \in Node /\ m # p
      BY <1>1, <1>4 DEF On, Shape, StackShape
    <3>. QED
      BY <1>1, <1>12, <3>1, <3>2, <3>3 DEF Shape, CasShape
  <2>. QED
    BY <2>2, <2>3
<1>19. Shape(h, d, X)'
  BY <1>13, <1>15, <1>16, <1>17, <1>18 DEF Shape
<1>. QED
  BY <1>8, <1>9, <1>19 DEF Ready, HazptrTypes

-----------------------------------------------------------------------------
(* The nodes along next, which a collection and the abstract stack follow. *)

\* f[k] is the node k steps from n along nx, and Null from the end on.
Walk(f, nx, n) ==
    f = [k \in 0 .. Cardinality(Node) |->
           IF k = 0 THEN n ELSE IF f[k - 1] = Null THEN Null ELSE nx[f[k - 1]]]

NodesOf(f) == [k \in 1 .. Cardinality({i \in 0 .. Cardinality(Node) : f[i] # Null}) |-> f[k - 1]]

\* Chain, for any next.
ChainOf(nx, n) ==
    LET node[k \in 0 .. Cardinality(Node)] ==
          IF k = 0 THEN n ELSE IF node[k - 1] = Null THEN Null ELSE nx[node[k - 1]]
        size == Cardinality({i \in DOMAIN node : node[i] # Null})
    IN  IF n = Null THEN <<>> ELSE [k \in 1 .. size |-> node[k - 1]]

\* Chain follows next.
LEMMA ChainIsChainOf == \A n : Chain(n) = ChainOf(next, n)
BY DEF Chain, ChainOf, After

\* There is such a walk, and Chain is its nodes.
LEMMA WalkOfChain ==
  ASSUME NEW nx, NEW n
  PROVE  \E f : Walk(f, nx, n) /\ ChainOf(nx, n) = NodesOf(f)
<1> DEFINE N == Cardinality(Node)
           Turn(x) == IF x = Null THEN Null ELSE nx[x]
           node[k \in 0 .. N] == IF k = 0 THEN n ELSE Turn(node[k - 1])
<1>0. N \in Nat
  BY HazptrAssumption, FS_CardinalityType
<1>1. ChainOf(nx, n) =
        IF n = Null THEN <<>>
        ELSE [k \in 1 .. Cardinality({i \in DOMAIN node : node[i] # Null}) |-> node[k - 1]]
  BY DEF ChainOf
<1> HIDE DEF Turn
<1>2. \E g : g = [k \in 0 .. N |-> IF k = 0 THEN n ELSE Turn(g[k - 1])]
  <2> DEFINE Rec(g, m) == g = [k \in 0 .. m |-> IF k = 0 THEN n ELSE Turn(g[k - 1])]
             T == {m \in 0 .. N : \E g : Rec(g, m)}
  <2> HIDE DEF N
  <2>1. 0 \in T
    <3>1. Rec([k \in 0 .. 0 |-> n], 0)
      OBVIOUS
    <3> HIDE DEF Rec
    <3>. QED
      BY <1>0, <3>1
  <2>2. ASSUME NEW m \in 1 .. N, m - 1 \in T PROVE m \in T
    <3>1. PICK g : Rec(g, m - 1)
      BY <2>2
    <3> DEFINE h == [k \in 0 .. m |-> IF k = m THEN Turn(g[m - 1]) ELSE g[k]]
    <3>2. Rec(h, m)
      BY <1>0, <3>1
    <3> HIDE DEF Rec, h
    <3>. QED
      BY <1>0, <3>2
  <2>3. \A m \in 1 .. N : m - 1 \in T => m \in T
    BY <2>2
  <2> HIDE DEF T
  <2>4. N \in T
    BY <1>0, <2>1, <2>3, CountUpTo
  <2>. QED
    BY <2>4 DEF T
<1>3. node = [k \in 0 .. N |-> IF k = 0 THEN n ELSE Turn(node[k - 1])]
  BY <1>2
<1> HIDE DEF node
<1>4. Walk(node, nx, n)
  BY <1>3 DEF Walk, Turn
<1>5. DOMAIN node = 0 .. N
  BY <1>3
<1>6. CASE n # Null
  BY <1>1, <1>4, <1>5, <1>6 DEF NodesOf
<1>7. CASE n = Null
  <2> DEFINE T == {k \in 0 .. N : node[k] = Null}
  <2>1. 0 \in T /\ \A k \in 1 .. N : k - 1 \in T => k \in T
    BY <1>0, <1>3, <1>7 DEF Turn
  <2> HIDE DEF T
  <2>2. \A k \in 0 .. N : k \in T
    BY <1>0, <2>1, CountUp
  <2>3. {i \in 0 .. N : node[i] # Null} = {}
    BY <2>2 DEF T
  <2>4. Cardinality({i \in 0 .. N : node[i] # Null}) = 0
    BY <2>3, FS_EmptySet
  <2>5. NodesOf(node) = [k \in 1 .. 0 |-> node[k - 1]]
    BY <2>4 DEF NodesOf
  <2>. QED
    BY <1>1, <1>4, <1>7, <2>5
<1>. QED
  BY <1>6, <1>7

\* A walk that starts within a set next stays in, stays in it: it has its nodes only.
LEMMA ChainWithin ==
  ASSUME NEW X \in SUBSET Node, NEW nx, \A x \in X : nx[x] \in X \cup {Null}, NEW n \in X \cup {Null}
  PROVE  \E m \in Nat : /\ DOMAIN ChainOf(nx, n) = 1 .. m
                        /\ \A i \in 1 .. m : ChainOf(nx, n)[i] \in X
<1> DEFINE N == Cardinality(Node)
<1>0. N \in Nat /\ Null \notin X
  BY HazptrAssumption, FS_CardinalityType
<1>1. PICK f : Walk(f, nx, n) /\ ChainOf(nx, n) = NodesOf(f)
  BY WalkOfChain
<1>2. \A k \in 0 .. N : f[k] = IF k = 0 THEN n ELSE IF f[k - 1] = Null THEN Null ELSE nx[f[k - 1]]
  BY <1>1 DEF Walk
<1> HIDE DEF N
<1>3. \A k \in 0 .. N : f[k] \in X \cup {Null}
  <2> DEFINE T == {k \in 0 .. N : f[k] \in X \cup {Null}}
  <2>1. 0 \in T
    BY <1>0, <1>2
  <2>2. ASSUME NEW k \in 1 .. N, k - 1 \in T PROVE k \in T
    <3>1. f[k] = IF f[k - 1] = Null THEN Null ELSE nx[f[k - 1]]
      BY <1>0, <1>2
    <3>2. f[k - 1] \in X \cup {Null} /\ k \in 0 .. N
      BY <1>0, <2>2
    <3>3. f[k] \in X \cup {Null}
      BY <3>1, <3>2
    <3>. QED
      BY <3>2, <3>3
  <2> HIDE DEF T
  <2>3. \A k \in 0 .. N : k \in T
    BY <1>0, <2>1, <2>2, CountUp
  <2>. QED
    BY <2>3 DEF T
<1> DEFINE I == {i \in 0 .. N : f[i] # Null}
<1>4. ASSUME NEW k \in 1 .. N, k \in I PROVE k - 1 \in I
  BY <1>0, <1>2, <1>4
<1>5. \E m \in Nat : I = 0 .. m - 1 /\ m <= N + 1
  <2> DEFINE U == {k \in 0 .. N + 1 : k \notin I}
  <2>1. U \in SUBSET Nat /\ N + 1 \in U
    BY <1>0
  <2>2. PICK m \in U : \A k \in U : m <= k
    BY <2>1, LeastNat
  <2>3. \A k \in 0 .. m - 1 : k \in I
    BY <1>0, <2>1, <2>2
  <2>4. ASSUME NEW k \in I PROVE k \in 0 .. m - 1
    <3> DEFINE D == {x \in 0 .. k : k - x \in I}
    <3>0. k \in Nat /\ k <= N /\ m \in Nat
      BY <1>0, <2>1, <2>4
    <3>1. 0 \in D
      BY <2>4, <3>0
    <3>2. ASSUME NEW x \in 1 .. k, x - 1 \in D PROVE x \in D
      <4>1. k - (x - 1) \in I /\ k - (x - 1) \in 1 .. N /\ (k - (x - 1)) - 1 = k - x
        BY <3>0, <3>2
      <4>2. k - x \in I
        BY <1>4, <4>1
      <4>. QED
        BY <3>0, <4>2
    <3> HIDE DEF D
    <3>3. \A x \in 0 .. k : x \in D
      BY <3>0, <3>1, <3>2, CountUp
    <3>4. ~ (m <= k)
      <4>1. SUFFICES ASSUME m <= k PROVE FALSE
        OBVIOUS
      <4>2. k - m \in 0 .. k /\ k - (k - m) = m
        BY <3>0, <4>1
      <4>3. m \in I
        BY <3>3, <4>2 DEF D
      <4>. QED
        BY <2>2, <4>3
    <3>. QED
      BY <3>0, <3>4
  <2>5. I = 0 .. m - 1 /\ m \in Nat /\ m <= N + 1
    BY <1>0, <2>1, <2>2, <2>3, <2>4
  <2>. QED
    BY <2>5
<1>6. PICK m \in Nat : I = 0 .. m - 1 /\ m <= N + 1
  BY <1>5
<1>7. Cardinality(I) = m
  <2>1. 0 \in Int /\ m - 1 \in Int
    BY <1>6
  <2>2. Cardinality(0 .. m - 1) = IF 0 > m - 1 THEN 0 ELSE m - 1 - 0 + 1
    BY <2>1, FS_Interval
  <2>3. Cardinality(0 .. m - 1) = m
    BY <2>2
  <2> HIDE DEF I
  <2>. QED
    BY <1>6, <2>3
<1>8. ChainOf(nx, n) = [k \in 1 .. m |-> f[k - 1]]
  BY <1>1, <1>7 DEF NodesOf, N
<1>9. ASSUME NEW i \in 1 .. m PROVE ChainOf(nx, n)[i] \in X
  <2>1. i - 1 \in I /\ i - 1 \in 0 .. N
    BY <1>0, <1>6
  <2>. QED
    BY <1>3, <1>8, <2>1
<1>. QED
  BY <1>8, <1>9

\* A stack has no more nodes than there are.
LEMMA StackFits ==
  ASSUME NEW h, NEW d, h \in Nat, \A i \in 1 .. h : d[i] \in Node,
         \A i, j \in 1 .. h : d[i] = d[j] => i = j
  PROVE  h <= Cardinality(Node)
<1> DEFINE g == [i \in 1 .. h |-> d[i]]
<1>1. g \in Injection(1 .. h, Node)
  BY DEF Injection, IsInjective
<1>2. Cardinality(1 .. h) <= Cardinality(Node)
  BY <1>1, HazptrAssumption, FS_Injection
<1>3. Cardinality(1 .. h) = h
  <2>1. 1 \in Int /\ h \in Int /\ (1 > h <=> h = 0)
    OBVIOUS
  <2>2. Cardinality(1 .. h) = IF 1 > h THEN 0 ELSE h - 1 + 1
    BY <2>1, FS_Interval
  <2>. QED
    BY <2>1, <2>2
<1>. QED
  BY <1>2, <1>3

FromTop(h, d) == [k \in 1 .. h |-> d[h + 1 - k]]

\* The chain of a stack is its nodes from the top.
LEMMA ChainOfStack ==
  ASSUME NEW h, NEW d, NEW nx, h \in Nat, d[0] = Null,
         \A i \in 1 .. h : d[i] \in Node /\ nx[d[i]] = d[i - 1],
         \A i, j \in 1 .. h : d[i] = d[j] => i = j
  PROVE  ChainOf(nx, d[h]) = FromTop(h, d)
<1> DEFINE N == Cardinality(Node)
<1>0. N \in Nat /\ h <= N
  BY HazptrAssumption, FS_CardinalityType, StackFits
<1>1. PICK f : Walk(f, nx, d[h]) /\ ChainOf(nx, d[h]) = NodesOf(f)
  BY WalkOfChain
<1>2. \A k \in 0 .. N : f[k] = IF k = 0 THEN d[h] ELSE IF f[k - 1] = Null THEN Null ELSE nx[f[k - 1]]
  BY <1>1 DEF Walk
<1> HIDE DEF N
<1>3. \A k \in 0 .. N : f[k] = IF k <= h THEN d[h - k] ELSE Null
  <2> DEFINE T == {k \in 0 .. N : f[k] = IF k <= h THEN d[h - k] ELSE Null}
  <2>1. 0 \in T
    BY <1>0, <1>2
  <2>2. ASSUME NEW k \in 1 .. N, k - 1 \in T PROVE k \in T
    <3>1. /\ f[k] = IF f[k - 1] = Null THEN Null ELSE nx[f[k - 1]]
          /\ f[k - 1] = IF k - 1 <= h THEN d[h - (k - 1)] ELSE Null
          /\ k \in 0 .. N
      BY <1>0, <1>2, <2>2
    <3>2. CASE k <= h
      <4>1. h - (k - 1) \in 1 .. h /\ h - (k - 1) - 1 = h - k /\ k - 1 <= h
        BY <3>2
      <4>2. f[k - 1] = d[h - (k - 1)]
        BY <3>1, <4>1
      <4>3. d[h - (k - 1)] # Null /\ nx[d[h - (k - 1)]] = d[h - k]
        BY <4>1, HazptrAssumption
      <4>. QED
        BY <3>1, <3>2, <4>2, <4>3
    <3>3. CASE k = h + 1
      <4>1. k - 1 <= h /\ h - (k - 1) = 0 /\ ~ (k <= h)
        BY <3>3
      <4>. QED
        BY <3>1, <4>1
    <3>4. CASE k > h + 1
      <4>1. ~ (k - 1 <= h) /\ ~ (k <= h)
        BY <3>4
      <4>. QED
        BY <3>1, <4>1
    <3>. QED
      BY <3>2, <3>3, <3>4
  <2> HIDE DEF T
  <2>3. \A k \in 0 .. N : k \in T
    BY <1>0, <2>1, <2>2, CountUp
  <2>. QED
    BY <2>3 DEF T
<1>4. {i \in 0 .. N : f[i] # Null} = 0 .. h - 1
  <2>1. ASSUME NEW i \in 0 .. N PROVE f[i] # Null <=> i < h
    <3>1. CASE i < h
      <4>1. h - i \in 1 .. h /\ i <= h
        BY <3>1
      <4>. QED
        BY <1>3, <3>1, <4>1, HazptrAssumption
    <3>2. CASE i = h
      <4>1. h - i = 0 /\ i <= h /\ ~ (i < h)
        BY <3>2
      <4>. QED
        BY <1>3, <4>1
    <3>3. CASE i > h
      BY <1>3, <3>3
    <3>. QED
      BY <3>1, <3>2, <3>3
  <2>. QED
    BY <1>0, <2>1
<1>5. Cardinality(0 .. h - 1) = h
  <2>1. 0 \in Int /\ h - 1 \in Int
    OBVIOUS
  <2>2. Cardinality(0 .. h - 1) = IF 0 > h - 1 THEN 0 ELSE h - 1 - 0 + 1
    BY <2>1, FS_Interval
  <2>. QED
    BY <2>2
<1>6. ChainOf(nx, d[h]) = [k \in 1 .. h |-> f[k - 1]]
  BY <1>1, <1>4, <1>5 DEF NodesOf, N
<1>7. \A k \in 1 .. h : f[k - 1] = d[h + 1 - k]
  <2>1. ASSUME NEW k \in 1 .. h PROVE f[k - 1] = d[h + 1 - k]
    <3>1. k - 1 \in 0 .. N /\ k - 1 <= h /\ h - (k - 1) = h + 1 - k
      BY <1>0
    <3>. QED
      BY <1>3, <3>1
  <2>. QED
    BY <2>1
<1>. QED
  BY <1>6, <1>7 DEF FromTop

\* cleanup: only nodes that are thread w's to delete, and announced by nobody, go;
\* the chain of the others is hers again.
LEMMA CollectFacts ==
  ASSUME NEW h, NEW d, NEW G, Ready(h, d, G), NEW w \in Thread, Collect(w)
  PROVE  \E X \in SUBSET G[w], gone \in SUBSET G[w] :
           /\ X \cap gone = {} /\ \A n \in G[w] : n \in reg[w].seen => n \notin gone
           /\ retired'[w] \in X \cup {Null} /\ \A u \in Thread \ {w} : retired'[u] = retired[u]
           /\ DOMAIN retired' = Thread /\ DOMAIN t' = Node /\ DOMAIN next' = Node /\ DOMAIN length' = Node
           /\ \A n \in Node \ gone : t'[n] = t[n] /\ length'[n] = length[n]
           /\ \A n \in gone : t'[n] = Null /\ length'[n] = 0 /\ next'[n] = Null
           /\ \A n \in X : next'[n] \in X \cup {Null}
           /\ \A n \in Node \ (X \cup gone) : next'[n] = next[n]
<1>1. /\ ThreadTypes /\ HeapTypes /\ Shape(h, d, G)
      /\ G[w] \in SUBSET Node /\ retired[w] \in G[w] \cup {Null} /\ \A n \in G[w] : next[n] \in G[w] \cup {Null}
      /\ retired \in [Thread -> Ptr]
  BY DEF Ready, HazptrTypes, Shape, GarbageShape, ThreadTypes
<1>2. PICK all, seen : all = Chain(retired[w]) /\ seen = reg[w].seen
  OBVIOUS
<1>3. PICK m \in Nat : DOMAIN all = 1 .. m /\ \A i \in 1 .. m : all[i] \in G[w]
  BY <1>1, <1>2, ChainIsChainOf, ChainWithin
<1>4. PICK kept : kept = {i \in DOMAIN all : all[i] \in seen}
  OBVIOUS
<1> DEFINE KeptAfter(i) ==
             LET later == {j \in kept : i < j} IN
             IF later = {} THEN Null ELSE all[CHOOSE j \in later : \A k \in later : j <= k]
           X == {all[i] : i \in kept}
           gone == {all[i] : i \in DOMAIN all \ kept}
<1>5. ASSUME NEW i \in Nat PROVE KeptAfter(i) \in X \cup {Null}
  <2> DEFINE later == {j \in kept : i < j}
  <2>1. CASE later = {}
    BY <2>1
  <2>2. CASE later # {}
    <3>1. later \in SUBSET Nat
      BY <1>3, <1>4
    <3>2. \E j \in later : \A k \in later : j <= k
      BY <2>2, <3>1, LeastNat
    <3>3. PICK c : c = CHOOSE j \in later : \A k \in later : j <= k
      OBVIOUS
    <3>4. c \in later
      BY <3>2, <3>3
    <3>5. KeptAfter(i) = all[c]
      BY <2>2, <3>3
    <3>. QED
      BY <3>4, <3>5
  <2>. QED
    BY <2>1, <2>2
<1>6. /\ retired' = [retired EXCEPT ![w] = KeptAfter(0)]
      /\ t' = [n \in Node |-> IF n \in gone THEN Null ELSE t[n]]
      /\ next' = [n \in Node |->
                    IF n \in gone THEN Null
                    ELSE IF \E i \in kept : all[i] = n
                    THEN KeptAfter(CHOOSE i \in kept : all[i] = n) ELSE next[n]]
      /\ length' = [n \in Node |-> IF n \in gone THEN 0 ELSE length[n]]
  BY <1>2, <1>4 DEF Collect
<1> HIDE DEF KeptAfter
<1>7. kept \subseteq 1 .. m /\ kept \subseteq Nat
  BY <1>3, <1>4
<1>8. X \in SUBSET G[w] /\ gone \in SUBSET G[w]
  BY <1>3, <1>7
<1>9. X \cap gone = {} /\ \A n \in G[w] : n \in seen => n \notin gone
  BY <1>4
<1>10. retired'[w] \in X \cup {Null} /\ DOMAIN retired' = Thread
       /\ \A u \in Thread \ {w} : retired'[u] = retired[u]
  <2>1. 0 \in Nat /\ KeptAfter(0) \in X \cup {Null}
    BY <1>5
  <2> HIDE DEF X
  <2>. QED
    BY <1>1, <1>6, <2>1
<1>11. ASSUME NEW n \in X PROVE next'[n] \in X \cup {Null}
  <2>1. PICK c : c = CHOOSE i \in kept : all[i] = n
    OBVIOUS
  <2>2. \E i \in kept : all[i] = n
    OBVIOUS
  <2>3. c \in kept /\ c \in Nat
    BY <1>7, <2>1, <2>2
  <2>4. n \in Node /\ n \notin gone
    BY <1>1, <1>8, <1>9
  <2> HIDE DEF X, gone
  <2>5. next'[n] = KeptAfter(c)
    BY <1>6, <2>1, <2>2, <2>4
  <2>6. KeptAfter(c) \in X \cup {Null}
    BY <1>5, <2>3
  <2>. QED
    BY <2>5, <2>6
<1>12. ASSUME NEW n \in Node, n \notin gone, n \notin X PROVE next'[n] = next[n]
  <2>1. ~ \E i \in kept : all[i] = n
    BY <1>12
  <2> HIDE DEF X, gone
  <2>. QED
    BY <1>6, <1>12, <2>1
<1>13. /\ \A n \in Node \ gone : t'[n] = t[n] /\ length'[n] = length[n]
       /\ \A n \in gone : t'[n] = Null /\ length'[n] = 0 /\ next'[n] = Null
       /\ DOMAIN t' = Node /\ DOMAIN next' = Node /\ DOMAIN length' = Node
  <2>1. gone \subseteq Node
    BY <1>1, <1>8
  <2> HIDE DEF gone
  <2>. QED
    BY <1>6, <2>1
<1>14. \A n \in Node \ (X \cup gone) : next'[n] = next[n]
  BY <1>12
<1> HIDE DEF X, gone
<1>. QED
  BY <1>2, <1>8, <1>9, <1>10, <1>11, <1>13, <1>14

\* A collection deletes nothing that is guarded, and nothing of the stack.
LEMMA KeepsCollect ==
  ASSUME NEW h, NEW d, NEW G, Ready(h, d, G), NEW w \in Thread, Collect(w)
  PROVE  /\ \E Y : Ready(h, d, Y)'
         /\ \A i \in 1 .. h : t'[d[i]] = t[d[i]]
<1>1. /\ ThreadTypes /\ HeapTypes /\ Shape(h, d, G) /\ reg[w].at = "scan" /\ reg[w].todo = {}
      /\ UNCHANGED <<head, slot, work, arrived, out>> /\ w \in arrived
      /\ G \in [Thread -> SUBSET Node]
  BY DEF Ready, HazptrTypes, Collect, ThreadTypes, Shape, GarbageShape
<1>2. PICK X \in SUBSET G[w], gone \in SUBSET G[w] :
           /\ X \cap gone = {} /\ \A n \in G[w] : n \in reg[w].seen => n \notin gone
           /\ retired'[w] \in X \cup {Null} /\ \A u \in Thread \ {w} : retired'[u] = retired[u]
           /\ DOMAIN retired' = Thread /\ DOMAIN t' = Node /\ DOMAIN next' = Node /\ DOMAIN length' = Node
           /\ \A n \in Node \ gone : t'[n] = t[n] /\ length'[n] = length[n]
           /\ \A n \in gone : t'[n] = Null /\ length'[n] = 0 /\ next'[n] = Null
           /\ \A n \in X : next'[n] \in X \cup {Null}
           /\ \A n \in Node \ (X \cup gone) : next'[n] = next[n]
  BY CollectFacts, SMTT(30)
<1> DEFINE r == Regs("release", "none", Null, Null)
<1>3. RegOK(r) /\ r.at = "release" /\ ~ Building(r)
  BY RegsOK DEF Places, Ptr
<1>4. /\ reg'[w] = r /\ DOMAIN reg' = DOMAIN reg
      /\ \A u \in Thread \ {w} : reg'[u] = reg[u]
  BY <1>1 DEF Collect, ThreadTypes
<1> HIDE DEF r
<1>5. \A n \in Node : n \notin G[w] => t'[n] = t[n] /\ length'[n] = length[n] /\ next'[n] = next[n]
  BY <1>2
<1>6. ThreadTypes'
  <2>1. /\ arrived \subseteq arrived' /\ arrived' \subseteq Thread /\ w \in arrived'
        /\ slot' \in [Thread -> Ptr] /\ out' \in [Thread -> Value \cup {Null}]
        /\ work' \in [Thread -> Nat]
        /\ \A u \in Thread \ {w} : slot'[u] = slot[u]
    BY <1>1 DEF ThreadTypes
  <2>2. \A u \in Thread : retired'[u] \in Ptr
    <3>1. retired'[w] \in Ptr
      BY <1>1, <1>2 DEF Ptr
    <3>2. \A u \in Thread \ {w} : retired'[u] \in Ptr
      BY <1>1, <1>2 DEF ThreadTypes
    <3>. QED
      BY <3>1, <3>2
  <2>3. retired' \in [Thread -> Ptr]
    <3>1. PICK x : retired' = [retired EXCEPT ![w] = x]
      BY DEF Collect
    <3>. QED
      BY <1>1, <2>2, <3>1 DEF ThreadTypes
  <2>. QED
    BY <1>1, <1>3, <1>4, <2>1, <2>3, ThreadMove
<1>7. HeapTypes'
  <2>1. \A n \in Node : /\ t'[n] \in Value \cup {Null} /\ length'[n] \in Nat /\ next'[n] \in Ptr
    <3>1. \A n \in Node : /\ t[n] \in Value \cup {Null} /\ length[n] \in Nat /\ next[n] \in Ptr
      BY <1>1 DEF HeapTypes
    <3>2. \A n \in Node : n \in X \/ n \in gone \/ n \in Node \ (X \cup gone)
      OBVIOUS
    <3>3. X \subseteq Node
      BY <1>1
    <3>. QED
      BY <1>2, <3>1, <3>2, <3>3 DEF Ptr
  <2>2. /\ t' = [n \in Node |-> t'[n]] /\ length' = [n \in Node |-> length'[n]]
        /\ next' = [n \in Node |-> next'[n]]
    BY DEF Collect
  <2>3. t' \in [Node -> Value \cup {Null}]
    BY <2>1, <2>2
  <2>4. length' \in [Node -> Nat] /\ next' \in [Node -> Ptr]
    BY <2>1, <2>2
  <2>5. head' \in Ptr
    BY <1>1 DEF HeapTypes
  <2>. QED
    BY <2>3, <2>4, <2>5 DEF HeapTypes
<1>8. PICK Y : Y = [G EXCEPT ![w] = X]
  OBVIOUS
<1>9. /\ Y \in [Thread -> SUBSET Node] /\ Y[w] = X /\ \A u \in Thread \ {w} : Y[u] = G[u]
      /\ \A u \in Thread : Y[u] \subseteq G[u]
  BY <1>1, <1>8
<1>10. \A i \in 1 .. h : d[i] \in Node /\ d[i] \notin G[w]
  BY <1>1 DEF Shape, StackShape, GarbageShape, On
<1>11. StackShape(h, d)'
  BY <1>1, <1>5, <1>10 DEF Shape, StackShape, Alive
<1>12. /\ Held(w)' = Null /\ \A u \in Thread \ {w} : Held(u)' = Held(u)
       /\ On(h, d)' = On(h, d)
  BY <1>3, <1>4 DEF Held, On
<1>13. HeldShape(On(h, d), Y)'
  <2>1. ASSUME NEW u \in Thread, Held(u)' # Null
        PROVE  /\ Held(u)' \in Node /\ t'[Held(u)'] # Null /\ Held(u)' \notin On(h, d)
               /\ \A v \in Thread : Held(u)' \notin Y[v]
    <3>1. u # w /\ Held(u)' = Held(u)
      BY <1>12, <2>1
    <3>2. /\ Held(u) \in Node /\ t[Held(u)] # Null /\ Held(u) \notin On(h, d)
          /\ \A v \in Thread : Held(u) \notin G[v]
      BY <1>1, <2>1, <3>1 DEF Shape, HeldShape, Alive
    <3>. QED
      BY <1>5, <1>9, <3>1, <3>2
  <2>2. \A u, v \in Thread : u # v /\ Held(u)' = Held(v)' => Held(u)' = Null
    BY <1>1, <1>12 DEF Shape, HeldShape
  <2>. QED
    BY <1>12, <2>1, <2>2 DEF HeldShape, Alive
<1>14. GarbageShape(On(h, d), Y)'
  <2>1. ASSUME NEW u \in Thread
        PROVE  /\ retired'[u] \in Y[u] \cup {Null}
               /\ \A m \in Y[u] : t'[m] # Null /\ m \notin On(h, d) /\ next'[m] \in Y[u] \cup {Null}
    <3>1. /\ retired[u] \in G[u] \cup {Null}
          /\ \A m \in G[u] : m \in Node /\ t[m] # Null /\ m \notin On(h, d) /\ next[m] \in G[u] \cup {Null}
      BY <1>1 DEF Shape, GarbageShape, Alive
    <3>2. CASE u = w
      <4>1. \A m \in X : m \in G[w] /\ m \in Node \ gone
        BY <1>1, <1>2
      <4>. QED
        BY <1>2, <1>9, <3>1, <3>2, <4>1
    <3>3. CASE u # w
      <4>1. G[u] \cap G[w] = {}
        BY <1>1, <3>3 DEF Shape, GarbageShape
      <4>. QED
        BY <1>2, <1>5, <1>9, <3>1, <3>3, <4>1
    <3>. QED
      BY <3>2, <3>3
  <2>2. \A u, v \in Thread : u # v => Y[u] \cap Y[v] = {}
    BY <1>1, <1>9 DEF Shape, GarbageShape
  <2>. QED
    BY <1>9, <1>12, <2>1, <2>2 DEF GarbageShape, Alive
<1>15. GuardShape(Y)'
  <2>1. SUFFICES ASSUME NEW u \in Thread, Guards(u)'
                 PROVE  /\ slot'[u] = reg'[u].p /\ t'[reg'[u].p] # Null
                        /\ \A v \in Thread :
                             /\ Building(reg'[v]) => reg'[v].mine # reg'[u].p
                             /\ reg'[v].at = "scan" /\ reg'[u].p \in Y[v] =>
                                   u \in reg'[v].todo \/ reg'[u].p \in reg'[v].seen
    BY DEF GuardShape, Building, Alive
  <2>2. u # w /\ reg'[u] = reg[u] /\ Guards(u)
    BY <1>3, <1>4, <2>1 DEF Guards
  <2>3. /\ slot[u] = reg[u].p /\ t[reg[u].p] # Null /\ reg[u].p \in Node
        /\ \A v \in Thread :
              /\ Building(reg[v]) => reg[v].mine # reg[u].p
              /\ reg[v].at = "scan" /\ reg[u].p \in G[v] =>
                    u \in reg[v].todo \/ reg[u].p \in reg[v].seen
    BY <1>1, <2>2, GuardedNode DEF Shape, GuardShape, Alive
  <2>4. t'[reg[u].p] # Null
    <3>1. reg[u].p \in G[w] => reg[u].p \in reg[w].seen
      BY <1>1, <2>3
    <3>2. reg[u].p \notin gone
      BY <1>2, <3>1
    <3>. QED
      BY <1>2, <2>3, <3>2
  <2>5. \A v \in Thread : reg'[v].at = "scan" => v # w
    BY <1>3, <1>4
  <2>6. \A v \in Thread : Building(reg'[v]) => v # w
    BY <1>3, <1>4
  <2>. QED
    BY <1>1, <1>4, <1>9, <2>2, <2>3, <2>4, <2>5, <2>6
<1>16. CasShape(On(h, d))'
  <2>1. SUFFICES ASSUME NEW u \in Thread
                 PROVE  /\ reg'[u].at = "popCas" /\ reg'[u].p \in On(h, d) =>
                              reg'[u].mine = next'[reg'[u].p]
                        /\ reg'[u].at = "pushCas" =>
                             /\ next'[reg'[u].mine] = reg'[u].p
                             /\ reg'[u].p = Null => length'[reg'[u].mine] = 1
                             /\ reg'[u].p \in On(h, d) =>
                                  length'[reg'[u].mine] = length'[reg'[u].p] + 1
    BY <1>12 DEF CasShape
  <2>2. CASE u = w
    BY <1>3, <1>4, <2>2
  <2>3. CASE u # w
    <3>1. reg'[u] = reg[u]
      BY <1>4, <2>3
    <3>2. reg[u].at = "pushCas" => reg[u].mine \notin G[w] /\ reg[u].mine \in Node
      <4>1. reg[u].at = "pushCas" => Building(reg[u])
        BY <1>1 DEF ThreadTypes, RegOK, Scanning, Building
      <4>. QED
        BY <4>1, OwnsBuilding
    <3>3. \A m \in On(h, d) : m \in Node /\ m \notin G[w]
      BY <1>10 DEF On
    <3>. QED
      BY <1>1, <1>5, <3>1, <3>2, <3>3 DEF Shape, CasShape
  <2>. QED
    BY <2>2, <2>3
<1>17. Shape(h, d, Y)'
  BY <1>11, <1>13, <1>14, <1>15, <1>16 DEF Shape
<1>18. Ready(h, d, Y)'
  BY <1>6, <1>7, <1>17 DEF Ready, HazptrTypes
<1>. QED
  BY <1>5, <1>10, <1>18

-----------------------------------------------------------------------------
(* What a step does to the stack.                                          *)

Keeps(h, d) ==
    /\ \E X : Ready(h, d, X)'
    /\ \A i \in 1 .. h : t'[d[i]] = t[d[i]]
    /\ out' = out
FindsNothing(h, d) ==
    /\ h = 0 /\ \E X : Ready(h, d, X)'
    /\ \E w \in Thread : out' = [out EXCEPT ![w] = Null]
Grows(h, d) ==
    /\ \E e, X : Ready(h + 1, e, X)' /\ \A i \in 1 .. h : e[i] = d[i]
    /\ t' = t /\ out' = out
Shrinks(h, d) ==
    /\ h \in Nat \ {0}
    /\ \E e, X : Ready(h - 1, e, X)' /\ \A i \in 1 .. h - 1 : e[i] = d[i]
    /\ t' = t /\ \E w \in Thread : out' = [out EXCEPT ![w] = t[d[h]]]

\* Every step keeps the stack, finds it empty, grows it by one node or takes its top.
LEMMA StepOfStack ==
  ASSUME NEW h, NEW d, NEW G, Ready(h, d, G), [Next]_vars
  PROVE  Keeps(h, d) \/ FindsNothing(h, d) \/ Grows(h, d) \/ Shrinks(h, d)
<1>1. CASE UNCHANGED vars
  <2>1. Shape(h, d, G)'
    <3>1. \A u \in Thread : Held(u)' = Held(u)
      BY <1>1 DEF vars, Held
    <3>2. GuardShape(G)'
      BY <1>1 DEF vars, heap, Ready, Shape, GuardShape, Guards, Alive
    <3>3. CasShape(On(h, d))'
      BY <1>1 DEF vars, heap, Ready, Shape, CasShape, On
    <3>4. head' = head /\ t' = t /\ next' = next /\ length' = length /\ retired' = retired
      BY <1>1 DEF vars, heap
    <3>5. Shape(h, d, G)
      BY DEF Ready
    <3>. QED
      BY <3>1, <3>2, <3>3, <3>4, <3>5, QuietStep
  <2>2. HazptrTypes'
    BY <1>1 DEF vars, heap, Ready, HazptrTypes, HeapTypes, ThreadTypes
  <2>3. t' = t /\ out' = out
    BY <1>1 DEF vars, heap
  <2>. QED
    BY <2>1, <2>2, <2>3 DEF Keeps, Ready
<1>2. ASSUME NEW w \in Thread, BeginPush(w) PROVE Keeps(h, d)
  <2>1. Ready(h, d, G)' /\ \A i \in 1 .. h : t'[d[i]] = t[d[i]]
    BY <1>2, KeepsBeginPush
  <2>2. out' = out
    BY <1>2 DEF BeginPush
  <2>. QED
    BY <2>1, <2>2 DEF Keeps
<1>3. ASSUME NEW w \in Thread, BeginRead(w) PROVE Keeps(h, d)
  BY <1>3, KeepsBeginRead DEF Keeps, BeginRead, heap
<1>4. ASSUME NEW w \in Thread, Load(w) PROVE Keeps(h, d)
  BY <1>4, KeepsLoad DEF Keeps, Load, KeepHeap, heap
<1>5. ASSUME NEW w \in Thread, Announce(w) PROVE Keeps(h, d)
  BY <1>5, KeepsAnnounce DEF Keeps, Announce, KeepHeap, heap
<1>6. ASSUME NEW w \in Thread, Validate(w) PROVE Keeps(h, d) \/ FindsNothing(h, d)
  <2>1. Ready(h, d, G)' /\ t' = t
    BY <1>6, KeepsValidate DEF Validate, KeepHeap, heap
  <2>2. out' = out \/ (head = Null /\ out' = [out EXCEPT ![w] = Null])
    BY <1>6 DEF Validate
  <2>3. head = Null => h = 0
    <3>1. h \in Nat /\ head = d[h] /\ \A i \in 1 .. h : d[i] \in Node
      BY DEF Ready, Shape, StackShape
    <3>2. h # 0 => h \in 1 .. h
      BY <3>1
    <3>. QED
      BY <3>1, <3>2, HazptrAssumption
  <2>. QED
    BY <2>1, <2>2, <2>3 DEF Keeps, FindsNothing
<1>7. ASSUME NEW w \in Thread, Link(w) PROVE Keeps(h, d)
  BY <1>7, KeepsLink DEF Keeps, Link
<1>8. ASSUME NEW w \in Thread, PushCas(w) PROVE Keeps(h, d) \/ Grows(h, d)
  BY <1>8, KeepsPushCas DEF Keeps, Grows, PushCas
<1>9. ASSUME NEW w \in Thread, Follow(w) PROVE Keeps(h, d)
  BY <1>9, KeepsFollow DEF Keeps, Follow, KeepHeap, heap
<1>10. ASSUME NEW w \in Thread, PopCas(w) PROVE Keeps(h, d) \/ Shrinks(h, d)
  <2>1. t' = t
    BY <1>10 DEF PopCas, KeepHeap, heap
  <2>. QED
    BY <1>10, <2>1, KeepsPopCas DEF Keeps, Shrinks
<1>11. ASSUME NEW w \in Thread, Measure(w) PROVE Keeps(h, d)
  BY <1>11, KeepsMeasure DEF Keeps, Measure, KeepHeap, heap
<1>12. ASSUME NEW w \in Thread, Release(w) PROVE Keeps(h, d)
  BY <1>12, KeepsRelease DEF Keeps, Release, KeepHeap, heap
<1>13. ASSUME NEW w \in Thread, Retire(w) PROVE Keeps(h, d)
  BY <1>13, KeepsRetire DEF Keeps, Retire
<1>14. ASSUME NEW w \in Thread, Scan(w) PROVE Keeps(h, d)
  BY <1>14, KeepsScan DEF Keeps, Scan, KeepHeap, heap
<1>15. ASSUME NEW w \in Thread, Collect(w) PROVE Keeps(h, d)
  BY <1>15, KeepsCollect DEF Keeps, Collect
<1>. QED
  BY <1>1, <1>2, <1>3, <1>4, <1>5, <1>6, <1>7, <1>8, <1>9, <1>10, <1>11, <1>12, <1>13, <1>14, <1>15
     DEF Next, Step

\* The first state: an empty stack and nothing retired.
LEMMA InitiallyEmpty ==
  ASSUME Init
  PROVE  \E d, G : Ready(0, d, G)
<1>1. PICK d, G : d = [i \in 0 .. 0 |-> Null] /\ G = [u \in Thread |-> {}]
  OBVIOUS
<1>2. HeapTypes
  BY DEF Init, HeapTypes, Ptr
<1>3. RegOK(Idle) /\ Idle.at = "idle" /\ ~ Building(Idle)
  BY RegsOK DEF Places, Idle, Ptr
<1>4. ThreadTypes
  BY <1>3 DEF Init, ThreadTypes, Ptr
<1>5. \A u \in Thread : reg[u] = Idle /\ Held(u) = Null /\ ~ Guards(u)
  BY <1>3 DEF Init, Held, Guards
<1>6. On(0, d) = {} /\ StackShape(0, d)
  BY <1>1 DEF On, StackShape, Init, Ptr
<1>7. HeldShape(On(0, d), G) /\ GuardShape(G) /\ CasShape(On(0, d))
  BY <1>3, <1>5 DEF HeldShape, GuardShape, CasShape
<1>8. GarbageShape(On(0, d), G)
  BY <1>1 DEF GarbageShape, Init
<1>. QED
  BY <1>2, <1>4, <1>6, <1>7, <1>8 DEF Ready, HazptrTypes, Shape

\* At every moment each node is on the stack, in one thread's hands, among one
\* thread's retired nodes, or free; and a guarded one is announced to whoever retired it.
THEOREM HazptrInvHolds == Spec => []HazptrInv
<1>1. Init => HazptrInv
  BY InitiallyEmpty DEF HazptrInv
<1>2. HazptrInv /\ [Next]_vars => HazptrInv'
  <2>1. SUFFICES ASSUME HazptrInv, [Next]_vars PROVE HazptrInv'
    OBVIOUS
  <2>2. PICK h, d, G : Ready(h, d, G)
    BY <2>1 DEF HazptrInv
  <2>3. \E k, e, X : Ready(k, e, X)'
    BY <2>1, <2>2, StepOfStack DEF Keeps, FindsNothing, Grows, Shrinks
  <2>. QED
    BY <2>3 DEF HazptrInv
<1>. QED
  BY <1>1, <1>2, PTL DEF Spec

\* No thread reads a node of the stack after it was deleted (acquire_retire.h).
THEOREM NodesOutlived == Spec => []NoUseAfterDelete
<1>1. HazptrInv => NoUseAfterDelete
  <2>1. SUFFICES ASSUME HazptrInv, NEW th \in Thread,
                        reg[th].at \in {"link", "follow", "measure", "retire"}, reg[th].p # Null
                 PROVE  Alive(reg[th].p)
    BY DEF NoUseAfterDelete
  <2>2. PICK h, d, G : Shape(h, d, G)
    BY <2>1 DEF HazptrInv, Ready
  <2>3. CASE reg[th].at = "retire"
    <3>1. Held(th) = reg[th].p
      BY <2>3 DEF Held, Building
    <3>. QED
      BY <2>1, <2>2, <3>1 DEF Shape, HeldShape
  <2>4. CASE reg[th].at \in {"link", "follow", "measure"}
    BY <2>1, <2>2, <2>4 DEF Shape, GuardShape, Guards
  <2>. QED
    BY <2>1, <2>3, <2>4
<1>. QED
  BY <1>1, HazptrInvHolds, PTL

\* The nodes of the stack, from the top, are what Chain finds from head.
LEMMA ChainOfHead ==
  ASSUME NEW h, NEW d, NEW G, Ready(h, d, G)
  PROVE  Chain(head) = FromTop(h, d)
<1>1. /\ h \in Nat /\ d[0] = Null /\ head = d[h]
      /\ \A i \in 1 .. h : d[i] \in Node /\ next[d[i]] = d[i - 1]
      /\ \A i, j \in 1 .. h : d[i] = d[j] => i = j
  BY DEF Ready, Shape, StackShape
<1>2. ChainOf(next, d[h]) = FromTop(h, d)
  <2>1. PICK nx : nx = next
    OBVIOUS
  <2>2. \A i \in 1 .. h : d[i] \in Node /\ nx[d[i]] = d[i - 1]
    BY <1>1, <2>1
  <2>3. ChainOf(nx, d[h]) = FromTop(h, d)
    BY <1>1, <2>2, ChainOfStack
  <2>. QED
    BY <2>1, <2>3
<1>. QED
  BY <1>1, <1>2, ChainIsChainOf

\* The same after a step.
LEMMA ChainOfHeadNext ==
  ASSUME NEW h, NEW d, NEW G, Ready(h, d, G)'
  PROVE  Chain(head)' = FromTop(h, d)
<1>1. /\ h \in Nat /\ d[0] = Null /\ head' = d[h]
      /\ \A i \in 1 .. h : d[i] \in Node /\ next'[d[i]] = d[i - 1]
      /\ \A i, j \in 1 .. h : d[i] = d[j] => i = j
  BY DEF Ready, Shape, StackShape
<1>2. ChainOf(next', d[h]) = FromTop(h, d)
  <2>1. PICK nx : nx = next'
    OBVIOUS
  <2>2. \A i \in 1 .. h : d[i] \in Node /\ nx[d[i]] = d[i - 1]
    BY <1>1, <2>1
  <2>3. ChainOf(nx, d[h]) = FromTop(h, d)
    BY <1>1, <2>2, ChainOfStack
  <2>. QED
    BY <2>1, <2>3
<1>3. Chain(head)' = ChainOf(next', head')
  BY DEF Chain, ChainOf, After
<1>. QED
  BY <1>1, <1>2, <1>3

\* size() reports the number of nodes below head, each of which knows those under it.
THEOREM LengthHolds == Spec => []LengthIsDepth
<1>1. HazptrInv => LengthIsDepth
  <2>1. SUFFICES ASSUME HazptrInv PROVE LengthIsDepth
    OBVIOUS
  <2>2. PICK h, d, G : Ready(h, d, G)
    BY <2>1 DEF HazptrInv
  <2>3. PICK stack : stack = Chain(head)
    OBVIOUS
  <2>4. /\ h \in Nat /\ stack = [k \in 1 .. h |-> d[h + 1 - k]] /\ \A i \in 1 .. h : length[d[i]] = i
    <3>1. stack = [k \in 1 .. h |-> d[h + 1 - k]]
      BY <2>2, <2>3, ChainOfHead DEF FromTop
    <3>. QED
      BY <2>2, <3>1 DEF Ready, Shape, StackShape
  <2>5. Len(stack) = h
    BY <2>4
  <2>6. ASSUME NEW i \in DOMAIN stack PROVE length[stack[i]] = Len(stack) - i + 1
    <3>1. i \in 1 .. h /\ h + 1 - i \in 1 .. h /\ h + 1 - i = h - i + 1
      BY <2>4
    <3>. QED
      BY <2>4, <2>5, <3>1
  <2>. QED
    BY <2>3, <2>6 DEF LengthIsDepth
<1>. QED
  BY <1>1, HazptrInvHolds, PTL

\* Both at once: what a pop or size() reads is allocated, and is the length of the stack
\* (hazptr_stack.h, acquire_retire).
THEOREM StackAlwaysSafe == Spec => []StackSafe
<1>1. NoUseAfterDelete /\ LengthIsDepth => StackSafe
  BY DEF StackSafe
<1>. QED
  BY <1>1, NodesOutlived, LengthHolds, PTL

\* What a step does to the values from the top.
LEMMA StepIsAbstract ==
  ASSUME HazptrInv, [Next]_vars
  PROVE  [Abstract!Next]_<<Values(Chain(head)), out>>
<1>1. PICK h, d, G : Ready(h, d, G)
  BY DEF HazptrInv
<1>2. /\ h \in Nat /\ t \in [Node -> Value \cup {Null}] /\ \A i \in 1 .. h : d[i] \in Node /\ t[d[i]] # Null
  BY <1>1 DEF Ready, Shape, StackShape, Alive, HazptrTypes, HeapTypes
<1>3. PICK now, after : now = Values(Chain(head)) /\ after = Values(Chain(head))'
  OBVIOUS
<1>4. now = [k \in 1 .. h |-> t[d[h + 1 - k]]]
  BY <1>1, <1>2, <1>3, ChainOfHead DEF Values, FromTop
<1>5. \A k \in 1 .. h : h + 1 - k \in 1 .. h
  BY <1>2
<1>6. now \in Seq(Value) /\ Len(now) = h
  BY <1>2, <1>4, <1>5
<1>7. ASSUME NEW j \in Nat, NEW e, NEW X, Ready(j, e, X)'
      PROVE  after = [k \in 1 .. j |-> t'[e[j + 1 - k]]] /\ \A i \in 1 .. j : e[i] \in Node /\ t'[e[i]] \in Value
  <2>1. Chain(head)' = FromTop(j, e)
    BY <1>7, ChainOfHeadNext
  <2>2. \A i \in 1 .. j : e[i] \in Node /\ t'[e[i]] # Null
    BY <1>7 DEF Ready, Shape, StackShape, Alive
  <2>3. t' \in [Node -> Value \cup {Null}]
    BY <1>7 DEF Ready, HazptrTypes, HeapTypes
  <2>. QED
    BY <1>3, <2>1, <2>2, <2>3 DEF Values, FromTop
<1>8. CASE Keeps(h, d)
  <2>1. PICK X : Ready(h, d, X)'
    BY <1>8 DEF Keeps
  <2>2. after = [k \in 1 .. h |-> t'[d[h + 1 - k]]]
    BY <1>2, <1>7, <2>1
  <2>3. after = now /\ out' = out
    BY <1>4, <1>5, <1>8, <2>2 DEF Keeps
  <2>. QED
    BY <1>3, <2>3
<1>9. CASE FindsNothing(h, d)
  <2>0. PICK X : Ready(h, d, X)'
    BY <1>9 DEF FindsNothing
  <2>1. PICK w \in Thread : out' = [out EXCEPT ![w] = Null]
    BY <1>9 DEF FindsNothing
  <2>2. h = 0 /\ after = [k \in 1 .. h |-> t'[d[h + 1 - k]]]
    BY <1>2, <1>7, <1>9, <2>0 DEF FindsNothing
  <2>3. now = <<>> /\ after = <<>>
    BY <1>4, <2>2
  <2>4. Abstract!PopEmpty(w)
    BY <1>3, <2>1, <2>3 DEF Abstract!PopEmpty
  <2>. QED
    BY <2>4 DEF Abstract!Next
<1>10. CASE Grows(h, d)
  <2>1. PICK e, X : Ready(h + 1, e, X)' /\ \A i \in 1 .. h : e[i] = d[i]
    BY <1>10 DEF Grows
  <2>2. PICK v : v = t'[e[h + 1]]
    OBVIOUS
  <2>3. /\ h + 1 \in Nat /\ h + 1 \in 1 .. h + 1
        /\ \A k \in 2 .. h + 1 : /\ h + 1 + 1 - k \in 1 .. h /\ k - 1 \in 1 .. h
                                 /\ h + 1 - (k - 1) = h + 1 + 1 - k
        /\ h + 1 + 1 - 1 = h + 1
        /\ \A k \in 1 .. h + 1 : k = 1 \/ k \in 2 .. h + 1
    BY <1>2
  <2>4. after = [k \in 1 .. h + 1 |-> t'[e[h + 1 + 1 - k]]] /\ v \in Value
    BY <1>7, <2>1, <2>2, <2>3
  <2>5. t' = t
    BY <1>10 DEF Grows
  <2>6. ASSUME NEW k \in 1 .. h + 1 PROVE after[k] = (<<v>> \o now)[k]
    <3>1. CASE k = 1
      BY <1>6, <2>2, <2>3, <2>4, <3>1
    <3>2. CASE k \in 2 .. h + 1
      <4>1. (<<v>> \o now)[k] = now[k - 1]
        BY <1>2, <1>6, <2>3, <3>2
      <4>2. now[k - 1] = t[d[h + 1 - (k - 1)]]
        BY <1>4, <2>3, <3>2
      <4>3. after[k] = t[e[h + 1 + 1 - k]]
        BY <2>4, <2>5
      <4>. QED
        BY <2>1, <2>3, <3>2, <4>1, <4>2, <4>3
    <3>. QED
      BY <2>3, <3>1, <3>2
  <2>7. after = <<v>> \o now
    <3>1. <<v>> \o now \in Seq(Value) /\ Len(<<v>> \o now) = h + 1
      BY <1>2, <1>6, <2>4
    <3>2. DOMAIN (<<v>> \o now) = 1 .. h + 1
      BY <3>1
    <3>. QED
      BY <2>4, <2>6, <3>1, <3>2
  <2>8. Abstract!Push(v)
    BY <1>3, <1>10, <2>7 DEF Abstract!Push, Grows
  <2>. QED
    BY <2>4, <2>8 DEF Abstract!Next
<1>11. CASE Shrinks(h, d)
  <2>1. PICK e, X : Ready(h - 1, e, X)' /\ \A i \in 1 .. h - 1 : e[i] = d[i]
    BY <1>11 DEF Shrinks
  <2>2. PICK w \in Thread : out' = [out EXCEPT ![w] = t[d[h]]]
    BY <1>11 DEF Shrinks
  <2>3. t' = t /\ h \in Nat \ {0}
    BY <1>11 DEF Shrinks
  <2>4. /\ h - 1 \in Nat /\ 1 \in 1 .. h /\ h + 1 - 1 = h
        /\ \A k \in 1 .. h - 1 : /\ h - 1 + 1 - k \in 1 .. h - 1 /\ k + 1 \in 1 .. h
                                 /\ h + 1 - (k + 1) = h - 1 + 1 - k
    BY <2>3
  <2>5. after = [k \in 1 .. h - 1 |-> t'[e[h - 1 + 1 - k]]]
    BY <1>7, <2>1, <2>4
  <2>6. now # <<>> /\ Head(now) = t[d[h]]
    BY <1>4, <1>6, <2>3, <2>4
  <2>7. \A k \in 1 .. h - 1 : after[k] = now[k + 1]
    BY <1>4, <2>1, <2>3, <2>4, <2>5
  <2>8. after = Tail(now)
    <3>1. /\ Tail(now) \in Seq(Value) /\ Len(Tail(now)) = h - 1
          /\ \A k \in 1 .. h - 1 : Tail(now)[k] = now[k + 1]
      BY <1>6, <2>3, <2>6
    <3>2. PICK rest : rest = Tail(now)
      OBVIOUS
    <3>3. rest \in Seq(Value) /\ Len(rest) = h - 1
      BY <3>1, <3>2
    <3>4. rest \in [1 .. h - 1 -> Value]
      BY <2>4, <3>3
    <3>5. \A k \in 1 .. h - 1 : after[k] = rest[k]
      BY <2>7, <3>1, <3>2
    <3>6. after = rest
      BY <2>5, <3>4, <3>5
    <3>. QED
      BY <3>2, <3>6
  <2>9. Abstract!Pop(w)
    BY <1>3, <2>2, <2>6, <2>8 DEF Abstract!Pop
  <2>. QED
    BY <2>9 DEF Abstract!Next
<1>. QED
  BY <1>1, <1>8, <1>9, <1>10, <1>11, StepOfStack

\* The stack is linearizable, deletions and reused nodes included: each successful
\* swap is one push or one pop, and a pop returns the value that was on top.
THEOREM StackImplemented == Spec => ImplementsStack
<1>1. Init => Abstract!Init
  <2>1. SUFFICES ASSUME Init PROVE Abstract!Init
    OBVIOUS
  <2>2. PICK d, G : Ready(0, d, G)
    BY <2>1, InitiallyEmpty
  <2>3. Chain(head) = FromTop(0, d)
    BY <2>2, ChainOfHead
  <2>4. Values(Chain(head)) = <<>>
    BY <2>3 DEF Values, FromTop
  <2>. QED
    BY <2>1, <2>4 DEF Abstract!Init, Init
<1>2. HazptrInv /\ [Next]_vars => [Abstract!Next]_<<Values(Chain(head)), out>>
  BY StepIsAbstract
<1>. QED
  BY <1>1, <1>2, HazptrInvHolds, PTL DEF Spec, ImplementsStack, Abstract!Spec

=============================================================================
