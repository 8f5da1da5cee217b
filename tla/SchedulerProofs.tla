--------------------------- MODULE SchedulerProofs ---------------------------
(***************************************************************************)
(* Proofs about Scheduler, for every number of workers, range, granularity *)
(* and deque size: SchedulerInv is inductive, a worker takes back its own  *)
(* job, no job outlives the pardo that forked it, and the loop body is     *)
(* called exactly once with every index before parallel_for returns.  The  *)
(* invariant addresses calls from the bottom of their stack, so that a     *)
(* call keeps its place while others come and go above it.                 *)
(***************************************************************************)
EXTENDS Scheduler, FiniteSetTheorems, TLAPS

Height(w) == Len(stack[w])
\* The p-th call of worker w, counted from its first; and after the step.
F(w, p) == stack[w][Len(stack[w]) + 1 - p]
After(w, p) == stack'[w][Len(stack'[w]) + 1 - p]

-----------------------------------------------------------------------------
(* Types: the calls on the stacks, and the registers by place.             *)

Seeking == {"seek", "popped", "steal", "stole"}
Final == {"spam", "notify", "end"}
MainPlaces == Final \cup {"call", "returned"}
WorkerPlaces == Asleep \cup Seeking \cup {"nap", "gone"}

Ops == {"main", "worker", "for", "do", "job"}
Ats == MainPlaces \cup WorkerPlaces \cup Pardos \cup {"enter", "finish"}
FrameType == [op : Ops, lo : Nat, hi : Nat, at : Ats]

FrameOK(f) ==
    /\ f \in FrameType
    /\ \/ f.op = "main" /\ f.at \in MainPlaces
       \/ f.op = "worker" /\ f.at \in WorkerPlaces
       \/ f.op = "for" /\ f.at = "enter" /\ Start <= f.lo /\ f.lo <= f.hi /\ f.hi <= End
       \/ /\ f.op = "do" /\ f.at \in Pardos
          /\ Start <= f.lo /\ f.lo < Mid(f) /\ Mid(f) < f.hi /\ f.hi <= End
       \/ f.op = "job" /\ f.at = "finish" /\ <<f.lo, f.hi>> \in Ranges

AgeType == [tag : Nat, top : 0 .. QSize - 1]

DequeTypes ==
    /\ bot \in [Worker -> 0 .. QSize - 1]
    /\ age \in [Worker -> AgeType]
    /\ deq \in [Worker -> [0 .. QSize - 1 -> Ranges \cup {NoJob}]]
    /\ DOMAIN reg = Worker

DataInv ==
    /\ stack \in [Worker -> Seq(FrameType)]
    /\ done \subseteq Ranges
    /\ hits \in [Start .. End - 1 -> Nat]
    /\ granularity \in Nat /\ conservative \in BOOLEAN /\ finishedFlag \in BOOLEAN

\* A stack stands on main's call or a worker's loop; with granularity 0 nothing is forked.
StackInv ==
    \A w \in Worker :
       /\ Height(w) >= 1 /\ F(w, 1).op \in {"main", "worker"}
       /\ \A p \in 1 .. Height(w) :
            /\ FrameOK(F(w, p))
            /\ F(w, p).op = "main" => w = Main /\ p = 1
            /\ F(w, p).op \in {"for", "do"} => granularity >= 1

Holding == {"wake", "notify", "returned"}
Lowering == {"bottom1", "bottom2", "bottom3", "bottom4"}
Reading == {"top1", "top2", "top3"}

RegOK(w) ==
    LET r == reg[w] IN
    \/ r.at \in {"idle", "pushed", "bottom1"} /\ r = [at |-> r.at]
    \/ /\ r.at \in Holding /\ r = [at |-> r.at, job |-> r.job]
       /\ r.job \in Ranges \cup {NoJob}
    \/ /\ r.at \in {"bottom2", "bottom3", "bottom4"}
       /\ r = [at |-> r.at, old |-> r.old, bot |-> r.bot]
       /\ r.old \in AgeType /\ r.bot \in 0 .. QSize - 1
    \/ /\ r.at = "top1" /\ r = [at |-> r.at, from |-> r.from, old |-> r.old]
       /\ r.from \in Worker \ {w} /\ r.old \in AgeType
    \/ /\ r.at = "top2" /\ r = [at |-> r.at, from |-> r.from, old |-> r.old, bot |-> r.bot]
       /\ r.from \in Worker \ {w} /\ r.old \in AgeType
       /\ r.bot \in 0 .. QSize - 1 /\ r.old.top < r.bot
    \/ /\ r.at = "top3"
       /\ r = [at |-> r.at, from |-> r.from, old |-> r.old, bot |-> r.bot, job |-> r.job]
       /\ r.from \in Worker \ {w} /\ r.old \in AgeType
       /\ r.bot \in 0 .. QSize - 1 /\ r.old.top < r.bot /\ r.job \in Ranges \cup {NoJob}

\* What a worker is doing with a deque suits the call it is in.
RegSuits(w) ==
    LET r == reg[w]  f == Top(w) IN
    \/ r.at = "idle"
    \/ f.op = "do" /\ f.at = "spawn" /\ (r.at = "pushed" \/ (r.at \in Holding /\ r.job = NoJob))
    \/ f.op = "do" /\ f.at = "own" /\ r.at \in Lowering \cup {"returned"}
    \/ f.op \in {"do", "worker"} /\ f.at = "popped" /\ r.at \in Lowering \cup {"returned"}
    \/ f.op \in {"do", "worker"} /\ f.at = "stole" /\ r.at \in Reading \cup Holding

RegInv == \A w \in Worker : RegSuits(w)

-----------------------------------------------------------------------------
(* What has been run when a call returns.                                  *)

Ran(lo, hi) == \A i \in Start .. End - 1 : lo <= i /\ i < hi => hits[i] >= 1

\* g has called f.
Called(g, f) ==
    \/ g.op = "main" /\ g.at = "returned" /\ f.op \in {"for", "do"}
         /\ f.hi = End /\ Ran(Start, f.lo)
    \/ g.op = "do" /\ g.at = "own" /\ f.op \in {"for", "do"}
         /\ f.lo = g.lo /\ f.hi = Mid(g)
    \/ g.op = "do" /\ g.at = "joined" /\ f.op \in {"for", "do"}
         /\ f.lo = Mid(g) /\ f.hi = g.hi /\ Ran(g.lo, Mid(g))
    \/ g.op = "job" /\ f.op \in {"for", "do"} /\ f.lo = g.lo /\ f.hi = g.hi
    \/ g.op = "do" /\ g.at = "seek" /\ f.op = "job" /\ Ran(g.lo, Mid(g))
    \/ g.op = "worker" /\ g.at = "seek" /\ f.op = "job"

\* What has been run when g is the innermost call.
Behind(g) ==
    /\ g.op = "main" /\ g.at # "call" => Ran(Start, End)
    /\ g.op = "do" /\ g.at # "spawn" => Ran(g.lo, Mid(g))
    /\ g.op = "do" /\ g.at = "joined" => Ran(g.lo, g.hi)
    /\ g.op = "job" => Ran(g.lo, g.hi)

RanInv ==
    /\ \A w \in Worker : /\ \A p \in 1 .. Height(w) - 1 : Called(F(w, p), F(w, p + 1))
                         /\ Behind(F(w, Height(w)))
    /\ \A j \in done : Ran(j[1], j[2])
    /\ finishedFlag => Ran(Start, End) /\ F(Main, 1).at \in Final

-----------------------------------------------------------------------------
(* The deque: Avail(v) are the slots whose job somebody may still take.    *)

Avail(v) ==
    LET r == reg[v]  t == age[v].top IN
    IF r.at \in {"pushed", "bottom1"} THEN t .. bot[v]
    ELSE IF r.at \in {"bottom2", "bottom3"} THEN {s \in {r.bot} : s = t}
    ELSE IF r.at = "bottom4" THEN {} ELSE t .. bot[v] - 1

OwnerInv(v) ==
    LET r == reg[v]  t == age[v].top IN
    /\ r.at \notin Lowering \cup {"pushed"} => t <= bot[v]
    /\ r.at \in {"pushed", "bottom1"} => t <= bot[v] + 1
    /\ r.at = "pushed" => bot[v] + 1 < QSize
    /\ r.at = "bottom2" => bot[v] = r.bot
    /\ r.at \in {"bottom3", "bottom4"} => bot[v] = 0
    /\ r.at \in {"bottom2", "bottom3"} =>
          r.bot <= r.old.top /\ r.old.top <= t /\ t <= r.bot + 1 /\ r.old.tag = age[v].tag
    /\ r.at = "bottom4" => r.old.tag = age[v].tag

\* A thief's copy of age is no newer than age; while it is age, its job is to be had.
ThiefInv(w) ==
    LET r == reg[w] IN
    r.at \in Reading =>
       /\ r.old.tag <= age[r.from].tag
       /\ r.old.tag = age[r.from].tag => r.old.top <= age[r.from].top
       /\ r.at # "top1" /\ r.old = age[r.from] => r.old.top \in Avail(r.from)
       /\ r.at = "top3" /\ r.old = age[r.from] => r.job = deq[r.from][r.old.top]

DequeInv == DequeTypes /\ \A w \in Worker : RegOK(w) /\ OwnerInv(w) /\ ThiefInv(w)

-----------------------------------------------------------------------------
(* The deque and the stack of its owner: the jobs to be had are those of   *)
(* the innermost pardos that have not asked for theirs back, in order.     *)

Pending(w, p) ==
    /\ F(w, p).op = "do" /\ F(w, p).at \in {"spawn", "own"}
    /\ ~ (p = Height(w) /\ F(w, p).at = "own" /\ reg[w].at = "returned")

Seeker(f) == f.op = "worker" \/ (f.op = "do" /\ f.at \in Seeking)

Matches(w, pos) ==
    /\ \A s \in Avail(w) : /\ pos[s] \in 1 .. Height(w)
                           /\ Pending(w, pos[s]) /\ deq[w][s] = RightJob(F(w, pos[s]))
    /\ \A s, u \in Avail(w) : s < u => pos[s] < pos[u]
    /\ \A s \in Avail(w), p \in 1 .. Height(w) :
          p > pos[s] => /\ ~ Seeker(F(w, p))
                        /\ Pending(w, p) => \E u \in Avail(w) : pos[u] = p

MatchInv == \A w \in Worker : \E pos \in [Avail(w) -> 1 .. Height(w)] : Matches(w, pos)

OwnInv == \A w \in Worker : Answered(w, "do", "own") =>
             \/ reg[w].job = RightJob(Top(w))
             \/ reg[w].job = NoJob /\ Avail(w) = {}

-----------------------------------------------------------------------------
(* Who is responsible for which iterations, and who holds which job: calls *)
(* ("frame"), slots of deques ("slot") and registers ("held").             *)

Name == ({"frame", "slot"} \X Worker \X Nat) \cup ({"held"} \X Worker \X {0})

Span(lo, hi) == {i \in Start .. End - 1 : lo <= i /\ i < hi}
JobSpan(j) == IF j = NoJob THEN {} ELSE Span(j[1], j[2])

FrameSpan(f) ==
    IF f.op = "main" /\ f.at = "call" THEN Span(Start, End)
    ELSE IF f.op = "for" THEN Span(f.lo, f.hi)
    ELSE IF f.op = "do" /\ f.at = "spawn" THEN Span(f.lo, Mid(f)) ELSE {}

FrameShare(w, p) == IF p \in 1 .. Height(w) THEN FrameSpan(F(w, p)) ELSE {}
FrameJob(w, p) == IF p \in 1 .. Height(w) /\ F(w, p).op = "job"
                  THEN <<F(w, p).lo, F(w, p).hi>> ELSE NoJob
SlotJob(w, s) == IF s \in Avail(w) THEN deq[w][s] ELSE NoJob
HeldJob(w) == IF reg[w].at \in Holding THEN reg[w].job ELSE NoJob

JobOf(x) == IF x[1] = "frame" THEN FrameJob(x[2], x[3])
            ELSE IF x[1] = "slot" THEN SlotJob(x[2], x[3]) ELSE HeldJob(x[2])
Share(x) == IF x[1] = "frame" THEN FrameShare(x[2], x[3]) ELSE JobSpan(JobOf(x))

\* No iteration is anybody's twice, and what is somebody's has not been run.
ShareInv ==
    /\ \A x, y \in Name : x # y => Share(x) \cap Share(y) = {}
    /\ \A x \in Name : \A i \in Share(x) : hits[i] = 0
    /\ \A i \in Start .. End - 1 : hits[i] <= 1

Waiting(w, p) == p \in 1 .. Height(w) /\ F(w, p).op = "do" /\ F(w, p).at # "joined"

\* A job is in one place, not done, and its pardo waits for it; what it forks is its own.
JobInv ==
    /\ \A x, y \in Name : x # y /\ JobOf(x) = JobOf(y) => JobOf(x) = NoJob
    /\ \A x \in Name : JobOf(x) # NoJob =>
          /\ JobOf(x) \notin done
          /\ \E w \in Worker, p \in Nat : Waiting(w, p) /\ RightJob(F(w, p)) = JobOf(x)
    /\ \A x, y \in Name : x[1] = "frame" /\ JobOf(x) # NoJob =>
          Share(y) \subseteq JobSpan(JobOf(x)) \/ Share(y) \cap JobSpan(JobOf(x)) = {}

SchedulerInv ==
    /\ DataInv /\ StackInv /\ RegInv /\ RanInv /\ DequeInv /\ MatchInv /\ OwnInv
    /\ ShareInv /\ JobInv

-----------------------------------------------------------------------------
(* Stacks.                                                                 *)

FromBottom(s, p) == s[Len(s) + 1 - p]

\* The head of stack s becomes f, with g, or with e and then g, above it.
One(s, f) == <<f>> \o Tail(s)
Two(s, f, g) == <<g>> \o (<<f>> \o Tail(s))
Three(s, f, e, g) == <<g, e>> \o (<<f>> \o Tail(s))

\* A worker that takes from its own deque has read where its ends are.
LEMMA BottomRegs ==
  ASSUME NEW v, RegOK(v), reg[v].at \in {"bottom2", "bottom3", "bottom4"}
  PROVE  reg[v].bot \in Nat /\ reg[v].old.top \in Nat
<1>1. reg[v].old \in AgeType /\ reg[v].bot \in 0 .. QSize - 1
  BY ZenonT(30) DEF RegOK, Holding
<1>. QED
  BY <1>1 DEF AgeType

\* Replacing, pushing and popping at the head leaves what is below in its place.
LEMMA StackMoves ==
  ASSUME NEW s \in Seq(FrameType), s # <<>>,
         NEW e \in FrameType, NEW f \in FrameType, NEW g \in FrameType
  PROVE  /\ Len(s) \in Nat \ {0} /\ Head(s) = FromBottom(s, Len(s)) /\ Head(s) \in FrameType
         /\ \A p \in 1 .. Len(s) : FromBottom(s, p) \in FrameType
         /\ LET t == One(s, f) IN
            /\ t \in Seq(FrameType) /\ Len(t) = Len(s) /\ FromBottom(t, Len(s)) = f
            /\ \A p \in 1 .. Len(s) - 1 : FromBottom(t, p) = FromBottom(s, p)
         /\ LET t == Two(s, f, g) IN
            /\ t \in Seq(FrameType) /\ Len(t) = Len(s) + 1
            /\ FromBottom(t, Len(s) + 1) = g /\ FromBottom(t, Len(s)) = f
            /\ \A p \in 1 .. Len(s) - 1 : FromBottom(t, p) = FromBottom(s, p)
         /\ LET t == Three(s, f, e, g) IN
            /\ t \in Seq(FrameType) /\ Len(t) = Len(s) + 2
            /\ FromBottom(t, Len(s) + 2) = g /\ FromBottom(t, Len(s) + 1) = e
            /\ FromBottom(t, Len(s)) = f
            /\ \A p \in 1 .. Len(s) - 1 : FromBottom(t, p) = FromBottom(s, p)
         /\ /\ Tail(s) \in Seq(FrameType) /\ Len(Tail(s)) = Len(s) - 1
            /\ \A p \in 1 .. Len(s) - 1 : FromBottom(Tail(s), p) = FromBottom(s, p)
<1>1. /\ Len(s) \in Nat \ {0} /\ Head(s) = s[1] /\ Head(s) \in FrameType
      /\ Tail(s) \in Seq(FrameType) /\ Len(Tail(s)) = Len(s) - 1
      /\ \A i \in 1 .. Len(s) - 1 : Tail(s)[i] = s[i + 1]
      /\ \A i \in 1 .. Len(s) : s[i] \in FrameType
  OBVIOUS
<1>2. \A p \in 1 .. Len(s) - 1 : FromBottom(Tail(s), p) = FromBottom(s, p)
  BY <1>1 DEF FromBottom
<1>3. /\ <<f>> \o Tail(s) \in Seq(FrameType) /\ Len(<<f>> \o Tail(s)) = Len(s)
      /\ (<<f>> \o Tail(s))[1] = f
      /\ \A i \in 2 .. Len(s) : (<<f>> \o Tail(s))[i] = Tail(s)[i - 1]
  <2>1. <<f>> \in Seq(FrameType) /\ Len(<<f>>) = 1 /\ <<f>>[1] = f
    OBVIOUS
  <2>. QED
    BY <1>1, <2>1
<1> DEFINE t == <<f>> \o Tail(s)
<1> HIDE DEF t
<1>4. t \in Seq(FrameType) /\ Len(t) = Len(s) /\ t[1] = f /\ \A i \in 2 .. Len(s) : t[i] = s[i]
  BY <1>1, <1>3 DEF t
<1>5. FromBottom(t, Len(s)) = f /\ \A p \in 1 .. Len(s) - 1 : FromBottom(t, p) = FromBottom(s, p)
  BY <1>1, <1>4 DEF FromBottom
<1>6. /\ <<g>> \o t \in Seq(FrameType) /\ Len(<<g>> \o t) = Len(s) + 1
      /\ (<<g>> \o t)[1] = g
      /\ \A i \in 2 .. Len(s) + 1 : (<<g>> \o t)[i] = t[i - 1]
  <2>1. <<g>> \in Seq(FrameType) /\ Len(<<g>>) = 1 /\ <<g>>[1] = g
    OBVIOUS
  <2>. QED
    BY <1>1, <1>4, <2>1
<1>7. /\ <<g, e>> \o t \in Seq(FrameType) /\ Len(<<g, e>> \o t) = Len(s) + 2
      /\ (<<g, e>> \o t)[1] = g /\ (<<g, e>> \o t)[2] = e
      /\ \A i \in 3 .. Len(s) + 2 : (<<g, e>> \o t)[i] = t[i - 2]
  <2>1. <<g, e>> \in Seq(FrameType) /\ Len(<<g, e>>) = 2 /\ <<g, e>>[1] = g /\ <<g, e>>[2] = e
    OBVIOUS
  <2>. QED
    BY <1>1, <1>4, <2>1
<1>8. /\ FromBottom(<<g>> \o t, Len(s) + 1) = g /\ FromBottom(<<g>> \o t, Len(s)) = f
      /\ \A p \in 1 .. Len(s) - 1 : FromBottom(<<g>> \o t, p) = FromBottom(s, p)
  <2> DEFINE u == <<g>> \o t
  <2>1. Len(u) = Len(s) + 1 /\ u[1] = g /\ \A i \in 2 .. Len(s) + 1 : u[i] = t[i - 1]
    BY <1>6
  <2> HIDE DEF u
  <2>2. FromBottom(u, Len(s) + 1) = g /\ FromBottom(u, Len(s)) = f
    BY <1>1, <1>4, <2>1 DEF FromBottom
  <2>3. \A p \in 1 .. Len(s) - 1 : FromBottom(u, p) = FromBottom(s, p)
    BY <1>1, <1>4, <2>1 DEF FromBottom
  <2>. QED
    BY <2>2, <2>3 DEF u
<1>9. /\ FromBottom(<<g, e>> \o t, Len(s) + 2) = g /\ FromBottom(<<g, e>> \o t, Len(s) + 1) = e
      /\ FromBottom(<<g, e>> \o t, Len(s)) = f
      /\ \A p \in 1 .. Len(s) - 1 : FromBottom(<<g, e>> \o t, p) = FromBottom(s, p)
  <2> DEFINE u == <<g, e>> \o t
  <2>1. Len(u) = Len(s) + 2 /\ u[1] = g /\ u[2] = e /\ \A i \in 3 .. Len(s) + 2 : u[i] = t[i - 2]
    BY <1>7
  <2> HIDE DEF u
  <2>2. FromBottom(u, Len(s) + 2) = g /\ FromBottom(u, Len(s) + 1) = e /\ FromBottom(u, Len(s)) = f
    BY <1>1, <1>4, <2>1 DEF FromBottom
  <2>3. \A p \in 1 .. Len(s) - 1 : FromBottom(u, p) = FromBottom(s, p)
    BY <1>1, <1>4, <2>1 DEF FromBottom
  <2>. QED
    BY <2>2, <2>3 DEF u
<1>10. Head(s) = FromBottom(s, Len(s)) /\ \A p \in 1 .. Len(s) : FromBottom(s, p) \in FrameType
  BY <1>1 DEF FromBottom
<1>. QED
  BY <1>1, <1>2, <1>4, <1>5, <1>6, <1>7, <1>8, <1>9, <1>10 DEF t, One, Two, Three

-----------------------------------------------------------------------------
(* Deques: what a step of the deque does to the slots whose job is to be   *)
(* had and to the job a worker holds.                                      *)

SameSlots == deq' = deq /\ \A v \in Worker : Avail(v)' = Avail(v)
SameHeld == \A v \in Worker : HeldJob(v)' = HeldJob(v)

\* w takes the job in slot s of v's deque, one end of it.
Takes(w, v, s) ==
    /\ deq' = deq /\ s \in Avail(v)
    /\ \A u \in Worker : Avail(u)' = IF u = v THEN Avail(v) \ {s} ELSE Avail(u)
    /\ \A u \in Worker : HeldJob(u)' = IF u = w THEN deq[v][s] ELSE HeldJob(u)
    /\ HeldJob(w) = NoJob
    /\ IF v = w THEN \A u \in Avail(v) : u <= s ELSE \A u \in Avail(v) : s <= u

\* What the deques promise each other.
Newer(a, b) == b = a \/ a.tag < b.tag \/ (a.tag = b.tag /\ a.top < b.top)

\* A thief's copy of age stays good while age grows, or is age and its job is still there.
LEMMA ThiefKept ==
  ASSUME DequeTypes, DequeTypes', NEW x \in Worker, RegOK(x), ThiefInv(x), reg'[x] = reg[x],
         \A v \in Worker : Newer(age[v], age'[v]),
         \A v \in Worker : age'[v] = age[v] /\ age[v].top \in Avail(v) =>
            age[v].top \in Avail(v)' /\ deq'[v][age[v].top] = deq[v][age[v].top]
  PROVE  ThiefInv(x)'
<1> SUFFICES ASSUME reg[x].at \in Reading PROVE ThiefInv(x)'
  BY DEF ThiefInv
<1> DEFINE r == reg[x]
           v == r.from
<1>1. v \in Worker /\ r.old \in AgeType
  BY DEF RegOK, Reading, Holding
<1>2. age[v] \in AgeType /\ age'[v] \in AgeType
  BY <1>1 DEF DequeTypes
<1>3. /\ r.old.tag <= age[v].tag
      /\ r.old.tag = age[v].tag => r.old.top <= age[v].top
      /\ r.at # "top1" /\ r.old = age[v] => r.old.top \in Avail(v)
      /\ r.at = "top3" /\ r.old = age[v] => r.job = deq[v][r.old.top]
  BY DEF ThiefInv
<1>4. Newer(age[v], age'[v])
  BY <1>1
<1>5. /\ r.old.tag \in Nat /\ r.old.top \in Nat /\ age[v].tag \in Nat /\ age[v].top \in Nat
      /\ age'[v].tag \in Nat /\ age'[v].top \in Nat
      /\ age'[v] = [tag |-> age'[v].tag, top |-> age'[v].top]
      /\ age[v] = [tag |-> age[v].tag, top |-> age[v].top]
      /\ r.old = [tag |-> r.old.tag, top |-> r.old.top]
  BY <1>1, <1>2 DEF AgeType
<1>6. r.old = age'[v] => age'[v] = age[v]
  BY <1>3, <1>4, <1>5 DEF Newer
<1>7. r.old.tag <= age'[v].tag /\ (r.old.tag = age'[v].tag => r.old.top <= age'[v].top)
  BY <1>3, <1>4, <1>5 DEF Newer
<1>8. r.old = age'[v] /\ r.at # "top1" =>
         r.old.top \in Avail(v)' /\ deq'[v][r.old.top] = deq[v][r.old.top]
  BY <1>1, <1>3, <1>6
<1>9. r.at = "top3" /\ r.old = age'[v] => r.job = deq'[v][r.old.top]
  BY <1>3, <1>6, <1>8
<1>. QED
  BY <1>7, <1>8, <1>9 DEF ThiefInv

\* Only a change of bot, of age or of its own registers moves a worker's slots.
LEMMA AvailSame ==
  ASSUME NEW v \in Worker, bot'[v] = bot[v], age'[v] = age[v], reg'[v] = reg[v]
  PROVE  /\ Avail(v)' = Avail(v) /\ HeldJob(v)' = HeldJob(v)
         /\ OwnerInv(v) => OwnerInv(v)'
         /\ RegOK(v) => RegOK(v)'
  BY DEF Avail, HeldJob, OwnerInv, RegOK

\* A step that touches only w's registers and keeps its slots preserves the invariant
\* if it does so for w.
LEMMA RegistersOnly ==
  ASSUME DequeInv, NEW w \in Worker, NEW r, reg' = [reg EXCEPT ![w] = r],
         bot' = bot, age' = age, deq' = deq,
         Avail(w)' = Avail(w), RegOK(w)', OwnerInv(w)', ThiefInv(w)'
  PROVE  DequeInv' /\ SameSlots /\ \A v \in Worker \ {w} : HeldJob(v)' = HeldJob(v)
<1>1. DequeTypes' /\ \A v \in Worker \ {w} : reg'[v] = reg[v]
  BY DEF DequeInv, DequeTypes
<1>2. \A v \in Worker \ {w} : /\ Avail(v)' = Avail(v) /\ HeldJob(v)' = HeldJob(v)
                              /\ OwnerInv(v)' /\ RegOK(v)'
  BY <1>1, AvailSame DEF DequeInv
<1>3. \A v \in Worker : Avail(v)' = Avail(v)
  BY <1>2
<1>4. \A v \in Worker \ {w} : ThiefInv(v)'
  <2>1. \A v \in Worker : Newer(age[v], age'[v])
    BY DEF Newer
  <2>. QED
    BY <1>1, <1>3, <2>1, ThiefKept DEF DequeInv
<1>. QED
  BY <1>1, <1>2, <1>3, <1>4 DEF DequeInv, SameSlots

\* pop_top reads age (work_stealing_deque.h:79).
LEMMA TopReadAgeStep ==
  ASSUME DequeInv, NEW w \in Worker, NEW v \in Worker \ {w}, D!TopReadAge(w, v)
  PROVE  DequeInv' /\ SameSlots /\ SameHeld
<1> DEFINE r == [at |-> "top1", from |-> v, old |-> age[v]]
<1>1. /\ reg[w] = D!Idle /\ reg' = [reg EXCEPT ![w] = r]
      /\ bot' = bot /\ age' = age /\ deq' = deq
  BY DEF D!TopReadAge, D!Goto
<1>2. reg'[w] = r /\ reg[w].at = "idle" /\ age[v] \in AgeType /\ age[w] \in AgeType
  BY <1>1 DEF DequeInv, DequeTypes, D!Idle
<1>3. Avail(w)' = Avail(w) /\ HeldJob(w)' = HeldJob(w)
  BY <1>1, <1>2 DEF Avail, HeldJob, Holding
<1>4. OwnerInv(w)'
  BY <1>1, <1>2 DEF DequeInv, OwnerInv, Lowering
<1>5. RegOK(w)'
  BY <1>2 DEF RegOK
<1>6. ThiefInv(w)'
  BY <1>1, <1>2 DEF ThiefInv, AgeType
<1>. QED
  BY <1>1, <1>3, <1>4, <1>5, <1>6, RegistersOnly DEF SameHeld

\* pop_top reads bot: while age is the same, the top slot is to be had if bot is above it.
LEMMA TopReadBotStep ==
  ASSUME DequeInv, NEW w \in Worker, D!TopReadBot(w)
  PROVE  DequeInv' /\ SameSlots /\ SameHeld
<1> DEFINE o == reg[w]
           v == o.from
           r == IF bot[v] > o.old.top
                THEN [at |-> "top2", from |-> v, old |-> o.old, bot |-> bot[v]]
                ELSE D!Returned(NoJob)
<1>1. /\ o.at = "top1" /\ reg' = [reg EXCEPT ![w] = r]
      /\ bot' = bot /\ age' = age /\ deq' = deq
  BY DEF D!TopReadBot, D!Goto
<1>2. /\ reg'[w] = r /\ v \in Worker \ {w} /\ o.old \in AgeType /\ age[v] \in AgeType
      /\ bot[v] \in 0 .. QSize - 1
  BY <1>1 DEF DequeInv, DequeTypes, RegOK, Holding
<1>3. r.at \in {"top2", "returned"} /\ (r.at = "returned" => r.job = NoJob)
  BY DEF D!Returned
<1>4. Avail(w)' = Avail(w) /\ HeldJob(w)' = HeldJob(w)
  BY <1>1, <1>2, <1>3 DEF Avail, HeldJob, Holding
<1>5. OwnerInv(w)'
  BY <1>1, <1>2, <1>3 DEF DequeInv, OwnerInv, Lowering
<1>6. RegOK(w)'
  BY <1>2 DEF RegOK, D!Returned, Holding
<1>7. ThiefInv(w)'
  <2> SUFFICES ASSUME bot[v] > o.old.top PROVE ThiefInv(w)'
    BY <1>2 DEF ThiefInv, Reading, D!Returned
  <2>1. /\ o.old.tag <= age[v].tag
        /\ o.old.tag = age[v].tag => o.old.top <= age[v].top
    BY <1>1 DEF DequeInv, ThiefInv, Reading
  <2>2. ASSUME o.old = age[v] PROVE o.old.top \in Avail(v)
    <3>1. OwnerInv(v) /\ RegOK(v) /\ age[v].top \in Nat /\ bot[v] \in Nat
      BY <1>2 DEF DequeInv, AgeType
    <3>2. CASE reg[v].at \in {"bottom2", "bottom3", "bottom4"}
      <4>1. reg[v].bot \in Nat /\ reg[v].old.top \in Nat
        BY <3>1, <3>2, BottomRegs
      <4>. QED
        BY <2>2, <3>1, <3>2, <4>1 DEF OwnerInv
    <3>3. CASE reg[v].at \notin {"bottom2", "bottom3", "bottom4"}
      BY <2>2, <3>1, <3>3 DEF Avail
    <3>. QED
      BY <3>2, <3>3
  <2>3. Avail(v)' = Avail(v)
    BY <1>1, <1>2, AvailSame DEF DequeInv, DequeTypes
  <2>4. reg'[w].at = "top2" /\ reg'[w].from = v /\ reg'[w].old = o.old
    BY <1>2
  <2>. QED
    BY <1>1, <2>1, <2>2, <2>3, <2>4 DEF ThiefInv
<1>. QED
  BY <1>1, <1>4, <1>5, <1>6, <1>7, RegistersOnly DEF SameHeld

\* pop_top reads the slot.
LEMMA TopReadSlotStep ==
  ASSUME DequeInv, NEW w \in Worker, D!TopReadSlot(w)
  PROVE  DequeInv' /\ SameSlots /\ SameHeld
<1> DEFINE o == reg[w]
           v == o.from
           r == [at |-> "top3", from |-> v, old |-> o.old, bot |-> o.bot,
                 job |-> deq[v][o.old.top]]
<1>1. /\ o.at = "top2" /\ reg' = [reg EXCEPT ![w] = r]
      /\ bot' = bot /\ age' = age /\ deq' = deq
  BY DEF D!TopReadSlot, D!Goto
<1>2. /\ reg'[w] = r /\ v \in Worker \ {w} /\ o.old \in AgeType /\ age[v] \in AgeType
      /\ o.bot \in 0 .. QSize - 1 /\ o.old.top < o.bot
  BY <1>1 DEF DequeInv, DequeTypes, RegOK, Holding
<1>3. Avail(w)' = Avail(w) /\ HeldJob(w)' = HeldJob(w)
  BY <1>1, <1>2 DEF Avail, HeldJob, Holding
<1>4. OwnerInv(w)'
  BY <1>1, <1>2 DEF DequeInv, OwnerInv, Lowering
<1>5. RegOK(w)'
  <2>1. o.old.top \in 0 .. QSize - 1
    BY <1>2 DEF AgeType
  <2>2. deq[v][o.old.top] \in Ranges \cup {NoJob}
    BY <1>2, <2>1 DEF DequeInv, DequeTypes
  <2>. QED
    BY <1>2, <2>2 DEF RegOK
<1>6. ThiefInv(w)'
  <2>1. Avail(v)' = Avail(v)
    BY <1>1, <1>2, AvailSame DEF DequeInv, DequeTypes
  <2>. QED
    BY <1>1, <1>2, <2>1 DEF DequeInv, ThiefInv, Reading
<1>. QED
  BY <1>1, <1>3, <1>4, <1>5, <1>6, RegistersOnly DEF SameHeld

\* pop_top swaps age: it gets the job in the top slot, or none.
LEMMA TopSwapStep ==
  ASSUME DequeInv, NEW w \in Worker, D!TopSwap(w)
  PROVE  DequeInv' /\ \/ SameSlots /\ SameHeld
                      \/ \E v \in Worker \ {w} : \E s \in Nat : Takes(w, v, s)
<1>. PICK o : o = reg[w]
  OBVIOUS
<1>. PICK v : v = o.from
  OBVIOUS
<1>. PICK won : won = (age[v] = o.old) /\ won \in BOOLEAN
  OBVIOUS
<1>. PICK r : r = [at  |-> IF o.bot = o.old.top + 1 THEN "returned" ELSE "wake",
                   job |-> IF won THEN o.job ELSE NoJob]
  OBVIOUS
<1>1. /\ o.at = "top3" /\ reg' = [reg EXCEPT ![w] = r]
      /\ bot' = bot /\ deq' = deq
      /\ age' = IF won THEN [age EXCEPT ![v].top = @ + 1] ELSE age
  BY DEF D!TopSwap, D!Goto
<1>2. /\ reg'[w] = r /\ v \in Worker \ {w} /\ o.old \in AgeType /\ age[v] \in AgeType
      /\ age[w] \in AgeType /\ o.job \in Ranges \cup {NoJob}
      /\ o.bot \in 0 .. QSize - 1 /\ o.old.top < o.bot
      /\ \A u \in Worker \ {w} : reg'[u] = reg[u]
  BY <1>1 DEF DequeInv, DequeTypes, RegOK, Holding
<1>3. r.at \in {"wake", "returned"} /\ r = [at |-> r.at, job |-> r.job]
      /\ r.job = (IF won THEN o.job ELSE NoJob)
  OBVIOUS
<1>4. RegOK(w)' /\ ThiefInv(w)' /\ HeldJob(w) = NoJob
  <2>1. RegOK(w)'
    BY <1>2, <1>3 DEF RegOK, Holding
  <2>2. ThiefInv(w)'
    BY <1>2, <1>3 DEF ThiefInv, Reading
  <2>3. HeldJob(w) = NoJob
    BY <1>1 DEF HeldJob, Holding
  <2>. QED
    BY <2>1, <2>2, <2>3
<1>5. CASE ~ won
  <2>1. age' = age
    BY <1>1, <1>5
  <2>2. Avail(w)' = Avail(w) /\ HeldJob(w)' = HeldJob(w)
    BY <1>1, <1>2, <1>3, <1>4, <1>5, <2>1 DEF Avail, HeldJob, Holding
  <2>3. OwnerInv(w)'
    BY <1>1, <1>2, <1>3, <2>1 DEF DequeInv, OwnerInv, Lowering
  <2>. QED
    BY <1>1, <1>4, <2>1, <2>2, <2>3, RegistersOnly DEF SameHeld
<1>6. CASE won
  <2>. PICK t : t = age[v].top
    OBVIOUS
  <2>1. /\ t \in Nat /\ t + 1 \in 0 .. QSize - 1 /\ t \in Avail(v) /\ o.job = deq[v][t]
    <3>1. t \in Avail(v) /\ o.job = deq[v][t]
      BY <1>1, <1>6 DEF DequeInv, ThiefInv, Reading
    <3>2. age[v] = o.old
      BY <1>6, Zenon
    <3>3. t \in Nat /\ t < o.bot /\ QSize \in Nat
      BY <1>2, <3>2, DequesAssumption DEF AgeType, D!DequeAssumption
    <3>. QED
      BY <1>2, <3>1, <3>3
  <2>2. /\ age' \in [Worker -> AgeType] /\ age'[v] = [tag |-> age[v].tag, top |-> t + 1]
        /\ \A u \in Worker \ {v} : age'[u] = age[u]
    <3>1. age' = [age EXCEPT ![v] = [age[v] EXCEPT !.top = t + 1]]
      BY <1>1, <1>6
    <3>2. [age[v] EXCEPT !.top = t + 1] = [tag |-> age[v].tag, top |-> t + 1]
      BY <1>2 DEF AgeType
    <3>3. [tag |-> age[v].tag, top |-> t + 1] \in AgeType
      BY <1>2, <2>1 DEF AgeType
    <3>4. age \in [Worker -> AgeType] /\ v \in Worker
      BY <1>2 DEF DequeInv, DequeTypes
    <3>. QED
      BY <3>1, <3>2, <3>3, <3>4
  <2>3. DequeTypes'
    BY <1>1, <2>2 DEF DequeInv, DequeTypes
  <2>4. \A u \in Worker \ {w, v} : /\ Avail(u)' = Avail(u) /\ HeldJob(u)' = HeldJob(u)
                                  /\ OwnerInv(u)' /\ RegOK(u)'
    BY <1>1, <1>2, <2>2, AvailSame DEF DequeInv
  <2>5. Avail(w)' = Avail(w) /\ OwnerInv(w)'
    BY <1>1, <1>2, <1>3, <2>2 DEF DequeInv, Avail, OwnerInv, Lowering
  <2>6. HeldJob(w)' = deq[v][t]
    BY <1>2, <1>3, <1>6, <2>1 DEF HeldJob, Holding
  <2>7. Avail(v)' = Avail(v) \ {t} /\ OwnerInv(v)' /\ RegOK(v)' /\ HeldJob(v)' = HeldJob(v)
        /\ \A u \in Avail(v) : t <= u
    <3>1. OwnerInv(v) /\ RegOK(v) /\ bot[v] \in Nat /\ t \in Nat /\ QSize \in Nat
      BY <1>2, <2>1, DequesAssumption DEF DequeInv, DequeTypes, D!DequeAssumption
    <3>2. reg'[v] = reg[v] /\ bot'[v] = bot[v] /\ age'[v].top = t + 1 /\ age'[v].tag = age[v].tag
      BY <1>1, <1>2, <2>2
    <3>3. RegOK(v)' /\ HeldJob(v)' = HeldJob(v)
      BY <3>1, <3>2 DEF RegOK, HeldJob
    <3>4. CASE reg[v].at \in {"bottom2", "bottom3", "bottom4"}
      <4>1. reg[v].bot \in Nat /\ reg[v].old.top \in Nat
        BY <3>1, <3>4, BottomRegs
      <4>2. reg[v].at \in {"bottom2", "bottom3"} /\ t = reg[v].bot
        BY <2>1, <3>4 DEF Avail
      <4>3. Avail(v)' = Avail(v) \ {t} /\ \A u \in Avail(v) : t <= u
        <5>1. Avail(v) = {t}
          BY <4>2 DEF Avail
        <5>2. reg'[v].at \in {"bottom2", "bottom3"} /\ age'[v].top # reg'[v].bot
          BY <3>1, <3>2, <4>1, <4>2
        <5>3. Avail(v)' = {}
          BY <5>2 DEF Avail
        <5>. QED
          BY <3>1, <5>1, <5>3
      <4>4. OwnerInv(v)'
        BY <3>1, <3>2, <4>1, <4>2 DEF OwnerInv, Lowering
      <4>. QED
        BY <3>3, <4>3, <4>4
    <3>5. CASE reg[v].at \in {"pushed", "bottom1"}
      <4>0. Avail(v) = t .. bot[v] /\ Avail(v)' = (t + 1) .. bot[v]
        BY <3>2, <3>5 DEF Avail, Lowering
      <4>1. Avail(v)' = Avail(v) \ {t} /\ \A u \in Avail(v) : t <= u
        BY <3>1, <4>0
      <4>2. OwnerInv(v)'
        <5>1. t <= bot[v]
          BY <2>1, <3>1, <4>0
        <5>. QED
          BY <3>1, <3>2, <3>5, <5>1 DEF OwnerInv, Lowering
      <4>. QED
        BY <3>3, <4>1, <4>2
    <3>6. CASE reg[v].at \notin Lowering \cup {"pushed"}
      <4>0. Avail(v) = t .. bot[v] - 1 /\ Avail(v)' = (t + 1) .. bot[v] - 1
        BY <3>2, <3>6 DEF Avail, Lowering
      <4>1. Avail(v)' = Avail(v) \ {t} /\ \A u \in Avail(v) : t <= u
        BY <3>1, <4>0
      <4>2. OwnerInv(v)'
        <5>1. t + 1 <= bot[v]
          BY <2>1, <3>1, <4>0
        <5>. QED
          BY <3>2, <3>6, <5>1 DEF OwnerInv, Lowering
      <4>. QED
        BY <3>3, <4>1, <4>2
    <3>. QED
      BY <3>4, <3>5, <3>6 DEF Lowering
  <2>8. \A u \in Worker \ {w} : ThiefInv(u)'
    <3>1. \A u \in Worker : Newer(age[u], age'[u])
      BY <1>2, <2>1, <2>2 DEF Newer
    <3>2. age'[v] # age[v]
      BY <2>1, <2>2
    <3>3. \A u \in Worker : age'[u] = age[u] /\ age[u].top \in Avail(u) =>
              age[u].top \in Avail(u)' /\ deq'[u][age[u].top] = deq[u][age[u].top]
      BY <1>1, <2>4, <2>5, <3>2
    <3>. QED
      BY <1>2, <2>3, <3>1, <3>3, ThiefKept DEF DequeInv
  <2>9. DequeInv'
    BY <1>4, <2>3, <2>4, <2>5, <2>7, <2>8 DEF DequeInv
  <2>10. Takes(w, v, t)
    BY <1>1, <1>2, <1>4, <2>1, <2>4, <2>5, <2>6, <2>7 DEF Takes
  <2>. QED
    BY <1>2, <2>1, <2>9, <2>10
<1>. QED
  BY <1>5, <1>6

\* w puts a job in the slot behind those of its deque.
Adds(w, job) ==
    /\ deq' = [deq EXCEPT ![w][bot[w]] = job]
    /\ bot[w] \in 0 .. QSize - 1 /\ \A s \in Avail(w) : s < bot[w]
    /\ \A v \in Worker : Avail(v)' = IF v = w THEN Avail(w) \cup {bot[w]} ELSE Avail(v)

\* push_bottom writes the slot (work_stealing_deque.h:61).
LEMMA PushStoreStep ==
  ASSUME DequeInv, NEW w \in Worker, NEW job \in Ranges, D!PushStore(w, job)
  PROVE  DequeInv' /\ SameHeld /\ Adds(w, job)
<1>. PICK b : b = bot[w]
  OBVIOUS
<1>. PICK t : t = age[w].top
  OBVIOUS
<1>1. /\ reg[w] = D!Idle /\ reg' = [reg EXCEPT ![w] = [at |-> "pushed"]]
      /\ b + 1 < QSize /\ bot' = bot /\ age' = age
      /\ deq' = [deq EXCEPT ![w][b] = job]
  BY DEF D!PushStore, D!Goto
<1>2. /\ reg'[w] = [at |-> "pushed"] /\ reg[w].at = "idle"
      /\ \A u \in Worker \ {w} : reg'[u] = reg[u]
      /\ b \in 0 .. QSize - 1 /\ t \in Nat /\ t <= b /\ b \in Nat
      /\ bot'[w] = b /\ age'[w].top = t
  <2>1. /\ reg'[w] = [at |-> "pushed"] /\ reg[w].at = "idle"
        /\ \A u \in Worker \ {w} : reg'[u] = reg[u]
    BY <1>1 DEF DequeInv, DequeTypes, D!Idle
  <2>2. b \in 0 .. QSize - 1 /\ b \in Nat /\ t \in Nat
    BY DEF DequeInv, DequeTypes, AgeType
  <2>3. t <= b
    BY <2>1 DEF DequeInv, OwnerInv, Lowering
  <2>. QED
    BY <1>1, <2>1, <2>2, <2>3
<1>3. DequeTypes'
  BY <1>1, <1>2 DEF DequeInv, DequeTypes
<1>4. Avail(w) = t .. b - 1 /\ Avail(w)' = t .. b
  BY <1>2 DEF Avail
<1>5. Avail(w)' = Avail(w) \cup {b} /\ \A s \in Avail(w) : s < b
  BY <1>2, <1>4
<1>6. \A u \in Worker \ {w} : /\ Avail(u)' = Avail(u) /\ HeldJob(u)' = HeldJob(u)
                              /\ OwnerInv(u)' /\ RegOK(u)'
  BY <1>1, <1>2, AvailSame DEF DequeInv
<1>7. OwnerInv(w)' /\ RegOK(w)' /\ ThiefInv(w)' /\ HeldJob(w)' = HeldJob(w)
  <2>1. OwnerInv(w)'
    BY <1>1, <1>2 DEF OwnerInv, Lowering
  <2>2. RegOK(w)' /\ ThiefInv(w)'
    BY <1>2 DEF RegOK, ThiefInv, Reading
  <2>3. HeldJob(w)' = HeldJob(w)
    BY <1>2 DEF HeldJob, Holding
  <2>. QED
    BY <2>1, <2>2, <2>3
<1>8. \A u \in Worker \ {w} : ThiefInv(u)'
  <2>1. \A v \in Worker : Newer(age[v], age'[v])
    BY <1>1 DEF Newer
  <2>2. \A v \in Worker : age[v].top \in Avail(v) =>
           age[v].top \in Avail(v)' /\ deq'[v][age[v].top] = deq[v][age[v].top]
    BY <1>1, <1>2, <1>5, <1>6 DEF DequeInv, DequeTypes
  <2>. QED
    BY <1>2, <1>3, <2>1, <2>2, ThiefKept DEF DequeInv
<1>9. Adds(w, job)
  BY <1>1, <1>2, <1>5, <1>6 DEF Adds
<1>. QED
  BY <1>3, <1>6, <1>7, <1>8, <1>9 DEF DequeInv, SameHeld

\* A step of the owner that keeps age and its slots preserves the invariant if it does
\* so for the owner.
LEMMA BotAndRegisters ==
  ASSUME DequeInv, NEW w \in Worker, NEW r, reg' = [reg EXCEPT ![w] = r],
         NEW b \in 0 .. QSize - 1, bot' = [bot EXCEPT ![w] = b], age' = age, deq' = deq,
         r.at \notin Reading,
         age[w].top \in Avail(w) => age[w].top \in Avail(w)',
         RegOK(w)', OwnerInv(w)'
  PROVE  /\ DequeInv'
         /\ \A v \in Worker \ {w} : Avail(v)' = Avail(v) /\ HeldJob(v)' = HeldJob(v)
<1>1. /\ DequeTypes' /\ reg'[w] = r
      /\ \A v \in Worker \ {w} : reg'[v] = reg[v] /\ bot'[v] = bot[v] /\ age'[v] = age[v]
  BY DEF DequeInv, DequeTypes
<1>2. \A v \in Worker \ {w} : /\ Avail(v)' = Avail(v) /\ HeldJob(v)' = HeldJob(v)
                              /\ OwnerInv(v)' /\ RegOK(v)'
  BY <1>1, AvailSame DEF DequeInv
<1>3. \A v \in Worker \ {w} : ThiefInv(v)'
  <2>1. \A v \in Worker : Newer(age[v], age'[v])
    BY DEF Newer
  <2>2. \A v \in Worker : age[v].top \in Avail(v) => age[v].top \in Avail(v)'
    BY <1>2
  <2>. QED
    BY <1>1, <2>1, <2>2, ThiefKept DEF DequeInv
<1>4. ThiefInv(w)'
  BY <1>1 DEF ThiefInv
<1>. QED
  BY <1>1, <1>2, <1>3, <1>4 DEF DequeInv

\* push_bottom publishes bot.
LEMMA PushPublishStep ==
  ASSUME DequeInv, NEW w \in Worker, D!PushPublish(w)
  PROVE  DequeInv' /\ SameSlots /\ SameHeld
<1>. PICK b : b = bot[w]
  OBVIOUS
<1>. PICK t : t = age[w].top
  OBVIOUS
<1>. PICK r : r = [at |-> IF b = 0 THEN "wake" ELSE "returned", job |-> NoJob]
  OBVIOUS
<1>1. /\ reg[w].at = "pushed" /\ reg' = [reg EXCEPT ![w] = r]
      /\ bot' = [bot EXCEPT ![w] = b + 1] /\ age' = age /\ deq' = deq
  BY DEF D!PushPublish, D!Goto
<1>2. /\ reg'[w] = r /\ r.at \in {"wake", "returned"} /\ r = [at |-> r.at, job |-> NoJob]
      /\ r.job = NoJob
      /\ b \in Nat /\ b + 1 \in 0 .. QSize - 1 /\ t \in Nat /\ t <= b + 1
      /\ bot'[w] = b + 1 /\ age'[w].top = t
  <2>1. b \in 0 .. QSize - 1 /\ t \in Nat /\ QSize \in Nat /\ reg'[w] = r
    BY <1>1, DequesAssumption DEF DequeInv, DequeTypes, AgeType, D!DequeAssumption
  <2>2. b + 1 < QSize /\ t <= b + 1
    BY <1>1 DEF DequeInv, OwnerInv, Lowering
  <2>3. bot'[w] = b + 1 /\ age'[w].top = t
    BY <1>1 DEF DequeInv, DequeTypes
  <2>. QED
    BY <2>1, <2>2, <2>3
<1>3. Avail(w) = t .. b /\ Avail(w)' = t .. (b + 1) - 1
  BY <1>1, <1>2 DEF Avail
<1>4. Avail(w)' = Avail(w)
  BY <1>2, <1>3
<1>5. OwnerInv(w)'
  BY <1>2 DEF OwnerInv, Lowering
<1>6. RegOK(w)'
  BY <1>2 DEF RegOK, Holding
<1>7. HeldJob(w)' = HeldJob(w)
  BY <1>1, <1>2 DEF HeldJob, Holding
<1>8. r.at \notin Reading
  BY <1>2 DEF Reading
<1>. QED
  BY <1>1, <1>2, <1>4, <1>5, <1>6, <1>7, <1>8, BotAndRegisters DEF SameSlots, SameHeld

\* pop_bottom lowers bot; an empty deque has nothing to be had.
LEMMA BottomLowerStep ==
  ASSUME DequeInv, NEW w \in Worker, D!BottomLower(w)
  PROVE  /\ DequeInv' /\ SameSlots /\ SameHeld
         /\ reg'[w].at \in {"bottom1", "returned"}
         /\ reg'[w].at = "returned" => reg'[w].job = NoJob /\ Avail(w) = {}
         /\ \A u \in Worker \ {w} : reg'[u] = reg[u]
<1>. PICK b : b = bot[w]
  OBVIOUS
<1>. PICK t : t = age[w].top
  OBVIOUS
<1>. PICK r : r = IF b = 0 THEN D!Returned(NoJob) ELSE [at |-> "bottom1"]
  OBVIOUS
<1>. PICK c : c = IF b = 0 THEN b ELSE b - 1
  OBVIOUS
<1>1. /\ reg[w] = D!Idle /\ reg' = [reg EXCEPT ![w] = r]
      /\ bot' = [bot EXCEPT ![w] = c] /\ age' = age /\ deq' = deq
  BY DEF D!BottomLower, D!Goto, DequeInv, DequeTypes
<1>2. /\ reg'[w] = r /\ reg[w].at = "idle"
      /\ b \in 0 .. QSize - 1 /\ b \in Nat /\ t \in Nat /\ t <= b
      /\ bot'[w] = c /\ age'[w].top = t
      /\ \A u \in Worker \ {w} : reg'[u] = reg[u]
  <2>1. reg'[w] = r /\ reg[w].at = "idle" /\ \A u \in Worker \ {w} : reg'[u] = reg[u]
    BY <1>1 DEF DequeInv, DequeTypes, D!Idle
  <2>2. b \in 0 .. QSize - 1 /\ b \in Nat /\ t \in Nat
    BY DEF DequeInv, DequeTypes, AgeType
  <2>3. t <= b
    BY <2>1 DEF DequeInv, OwnerInv, Lowering
  <2>4. bot'[w] = c /\ age'[w].top = t
    BY <1>1 DEF DequeInv, DequeTypes
  <2>. QED
    BY <2>1, <2>2, <2>3, <2>4
<1>3. c \in 0 .. QSize - 1 /\ c \in Nat
  BY <1>2, DequesAssumption DEF D!DequeAssumption
<1>4. Avail(w) = t .. b - 1
  BY <1>1, <1>2 DEF Avail, D!Idle
<1>5. r.at \notin Reading /\ HeldJob(w)' = HeldJob(w) /\ r.at \in {"bottom1", "returned"}
  BY <1>1, <1>2 DEF Reading, HeldJob, Holding, D!Returned
<1>6. CASE b = 0
  <2>1. r = [at |-> "returned", job |-> NoJob] /\ c = b
    BY <1>6 DEF D!Returned
  <2>2. Avail(w)' = t .. b - 1
    BY <1>2, <2>1 DEF Avail
  <2>3. OwnerInv(w)' /\ RegOK(w)'
    BY <1>2, <2>1 DEF OwnerInv, Lowering, RegOK, Holding
  <2>4. Avail(w) = {} /\ Avail(w)' = Avail(w)
    BY <1>2, <1>4, <1>6, <2>2
  <2>5. /\ DequeInv'
        /\ \A v \in Worker \ {w} : Avail(v)' = Avail(v) /\ HeldJob(v)' = HeldJob(v)
    BY <1>1, <1>3, <1>5, <2>3, <2>4, BotAndRegisters
  <2>. QED
    BY <1>1, <1>2, <1>5, <2>1, <2>4, <2>5 DEF SameSlots, SameHeld
<1>7. CASE b # 0
  <2>1. r = [at |-> "bottom1"] /\ c = b - 1
    BY <1>7
  <2>2. Avail(w)' = t .. b - 1
    BY <1>2, <2>1 DEF Avail
  <2>3. OwnerInv(w)' /\ RegOK(w)'
    BY <1>2, <1>3, <2>1 DEF OwnerInv, Lowering, RegOK
  <2>4. Avail(w)' = Avail(w)
    BY <1>4, <2>2
  <2>5. /\ DequeInv'
        /\ \A v \in Worker \ {w} : Avail(v)' = Avail(v) /\ HeldJob(v)' = HeldJob(v)
    BY <1>1, <1>3, <1>5, <2>3, <2>4, BotAndRegisters
  <2>. QED
    BY <1>1, <1>2, <1>5, <2>1, <2>4, <2>5 DEF SameSlots, SameHeld
<1>. QED
  BY <1>6, <1>7

\* pop_bottom reads age: it takes the job if others are left, else it competes for it.
LEMMA BottomReadAgeStep ==
  ASSUME DequeInv, NEW w \in Worker, D!BottomReadAge(w)
  PROVE  /\ DequeInv'
         /\ \/ SameSlots /\ SameHeld /\ reg'[w].at = "bottom2"
            \/ \E s \in Nat : Takes(w, w, s) /\ reg'[w] = D!Returned(deq[w][s])
         /\ \A u \in Worker \ {w} : reg'[u] = reg[u]
<1>. PICK b : b = bot[w]
  OBVIOUS
<1>. PICK t : t = age[w].top
  OBVIOUS
<1>. PICK r : r = IF b > t THEN D!Returned(deq[w][b])
                  ELSE [at |-> "bottom2", old |-> age[w], bot |-> b]
  OBVIOUS
<1>1. /\ reg[w].at = "bottom1" /\ reg' = [reg EXCEPT ![w] = r]
      /\ bot' = bot /\ age' = age /\ deq' = deq
  BY DEF D!BottomReadAge, D!Goto
<1>2. /\ reg'[w] = r /\ b \in 0 .. QSize - 1 /\ b \in Nat /\ t \in Nat /\ t <= b + 1
      /\ bot'[w] = b /\ age'[w].top = t /\ age[w] \in AgeType /\ age'[w] = age[w]
      /\ \A u \in Worker \ {w} : reg'[u] = reg[u]
  <2>1. reg'[w] = r /\ \A u \in Worker \ {w} : reg'[u] = reg[u]
    BY <1>1 DEF DequeInv, DequeTypes
  <2>2. b \in 0 .. QSize - 1 /\ b \in Nat /\ t \in Nat /\ age[w] \in AgeType
    BY DEF DequeInv, DequeTypes, AgeType
  <2>3. t <= b + 1
    BY <1>1 DEF DequeInv, OwnerInv, Lowering
  <2>. QED
    BY <1>1, <2>1, <2>2, <2>3
<1>3. Avail(w) = t .. b /\ HeldJob(w) = NoJob
  BY <1>1 DEF Avail, HeldJob, Holding
<1>4. bot' = [bot EXCEPT ![w] = b]
  BY <1>1 DEF DequeInv, DequeTypes
<1>5. CASE b > t
  <2>1. r = [at |-> "returned", job |-> deq[w][b]] /\ deq[w][b] \in Ranges \cup {NoJob}
    BY <1>2, <1>5 DEF D!Returned, DequeInv, DequeTypes
  <2>2. Avail(w)' = t .. b - 1
    BY <1>2, <2>1 DEF Avail
  <2>3. OwnerInv(w)' /\ RegOK(w)' /\ r.at \notin Reading /\ HeldJob(w)' = deq[w][b]
    <3>1. OwnerInv(w)'
      BY <1>2, <1>5, <2>1 DEF OwnerInv, Lowering
    <3>2. RegOK(w)'
      BY <1>2, <2>1 DEF RegOK, Holding
    <3>3. r.at \notin Reading /\ HeldJob(w)' = deq[w][b]
      BY <1>2, <2>1 DEF Reading, HeldJob, Holding
    <3>. QED
      BY <3>1, <3>2, <3>3
  <2>4. /\ Avail(w)' = Avail(w) \ {b} /\ b \in Avail(w) /\ t \in Avail(w)'
        /\ \A s \in Avail(w) : s <= b
    BY <1>2, <1>3, <1>5, <2>2
  <2>5. /\ DequeInv'
        /\ \A v \in Worker \ {w} : Avail(v)' = Avail(v) /\ HeldJob(v)' = HeldJob(v)
    BY <1>1, <1>2, <1>4, <2>3, <2>4, BotAndRegisters
  <2>6. Takes(w, w, b)
    BY <1>1, <1>3, <2>3, <2>4, <2>5 DEF Takes
  <2>. QED
    BY <1>2, <2>1, <2>5, <2>6 DEF D!Returned
<1>6. CASE ~ (b > t)
  <2>1. r = [at |-> "bottom2", old |-> age[w], bot |-> b]
    BY <1>6
  <2>2. Avail(w)' = {s \in {b} : s = t}
    BY <1>2, <2>1 DEF Avail
  <2>3. OwnerInv(w)' /\ RegOK(w)' /\ r.at \notin Reading /\ HeldJob(w)' = NoJob
    <3>1. OwnerInv(w)'
      BY <1>2, <1>6, <2>1 DEF OwnerInv, Lowering
    <3>2. RegOK(w)'
      BY <1>2, <2>1 DEF RegOK
    <3>3. r.at \notin Reading /\ HeldJob(w)' = NoJob
      BY <1>2, <2>1 DEF Reading, HeldJob, Holding
    <3>. QED
      BY <3>1, <3>2, <3>3
  <2>4. Avail(w)' = Avail(w)
    BY <1>2, <1>3, <1>6, <2>2
  <2>5. /\ DequeInv'
        /\ \A v \in Worker \ {w} : Avail(v)' = Avail(v) /\ HeldJob(v)' = HeldJob(v)
    BY <1>1, <1>2, <1>4, <2>3, <2>4, BotAndRegisters
  <2>. QED
    BY <1>1, <1>2, <1>3, <2>1, <2>3, <2>4, <2>5 DEF SameSlots, SameHeld
<1>. QED
  BY <1>5, <1>6

\* pop_bottom resets bot.
LEMMA BottomResetStep ==
  ASSUME DequeInv, NEW w \in Worker, D!BottomReset(w)
  PROVE  /\ DequeInv' /\ SameSlots /\ SameHeld /\ reg'[w].at = "bottom3"
         /\ \A u \in Worker \ {w} : reg'[u] = reg[u]
<1>. PICK o : o = reg[w]
  OBVIOUS
<1>. PICK r : r = [at |-> "bottom3", old |-> o.old, bot |-> o.bot]
  OBVIOUS
<1>1. /\ o.at = "bottom2" /\ o = [at |-> o.at, old |-> o.old, bot |-> o.bot]
      /\ o.old \in AgeType /\ o.bot \in 0 .. QSize - 1
  BY DEF D!BottomReset, DequeInv, RegOK, Holding
<1>2. /\ reg' = [reg EXCEPT ![w] = r] /\ bot' = [bot EXCEPT ![w] = 0]
      /\ age' = age /\ deq' = deq
  <2>1. [o EXCEPT !.at = "bottom3"] = r
    BY <1>1
  <2>. QED
    BY <2>1 DEF D!BottomReset, D!Goto
<1>3. /\ reg'[w] = r /\ \A u \in Worker \ {w} : reg'[u] = reg[u]
      /\ bot'[w] = 0 /\ 0 \in 0 .. QSize - 1 /\ age'[w] = age[w]
  BY <1>2, DequesAssumption DEF DequeInv, DequeTypes, D!DequeAssumption
<1>4. Avail(w)' = Avail(w)
  BY <1>1, <1>3 DEF Avail
<1>5. OwnerInv(w)'
  BY <1>1, <1>3 DEF DequeInv, OwnerInv, Lowering
<1>6. RegOK(w)'
  BY <1>1, <1>3 DEF RegOK
<1>7. r.at \notin Reading /\ HeldJob(w)' = HeldJob(w)
  BY <1>1, <1>3 DEF Reading, HeldJob, Holding
<1>8. /\ DequeInv'
      /\ \A v \in Worker \ {w} : Avail(v)' = Avail(v) /\ HeldJob(v)' = HeldJob(v)
  <2>. PICK b : b = 0
    OBVIOUS
  <2>1. b \in 0 .. QSize - 1 /\ bot' = [bot EXCEPT ![w] = b]
    BY <1>2, <1>3
  <2>. QED
    BY <1>2, <1>4, <1>5, <1>6, <1>7, <2>1, BotAndRegisters
<1>. QED
  BY <1>2, <1>3, <1>4, <1>7, <1>8 DEF SameSlots, SameHeld

\* A step that gives age a new tag preserves the invariant if it does so for the owner.
LEMMA RenewKeeps ==
  ASSUME DequeInv, NEW w \in Worker, NEW r, reg' = [reg EXCEPT ![w] = r],
         bot' = bot, deq' = deq, NEW o \in AgeType, o.tag = age[w].tag,
         age' = [age EXCEPT ![w] = D!Renewed(o)],
         r.at \notin Reading, RegOK(w)', r.at \notin Lowering \cup {"pushed"}, bot[w] = 0
  PROVE  /\ DequeInv' /\ Avail(w)' = {}
         /\ \A v \in Worker \ {w} : Avail(v)' = Avail(v) /\ HeldJob(v)' = HeldJob(v)
<1>1. /\ age[w] \in AgeType /\ D!Renewed(o) = [tag |-> age[w].tag + 1, top |-> 0]
      /\ 0 \in 0 .. QSize - 1
  BY DequesAssumption DEF DequeInv, DequeTypes, D!Renewed, D!DequeAssumption
<1>2. D!Renewed(o) \in AgeType
  BY <1>1 DEF AgeType
<1>3. DequeTypes' /\ age'[w] = D!Renewed(o) /\ reg'[w] = r
      /\ \A v \in Worker \ {w} : reg'[v] = reg[v] /\ bot'[v] = bot[v] /\ age'[v] = age[v]
  BY <1>2 DEF DequeInv, DequeTypes
<1>4. \A v \in Worker \ {w} : /\ Avail(v)' = Avail(v) /\ HeldJob(v)' = HeldJob(v)
                              /\ OwnerInv(v)' /\ RegOK(v)'
  BY <1>3, AvailSame DEF DequeInv
<1>5. age'[w].top = 0 /\ bot'[w] = 0 /\ age[w].tag \in Nat /\ age'[w].tag = age[w].tag + 1
  BY <1>1, <1>3 DEF AgeType
<1>6. OwnerInv(w)'
  BY <1>3, <1>5 DEF OwnerInv, Lowering
<1>7. Avail(w)' = {}
  <2>1. Avail(w)' = 0 .. 0 - 1
    BY <1>3, <1>5 DEF Avail, Lowering
  <2>. QED
    BY <2>1
<1>8. \A v \in Worker \ {w} : ThiefInv(v)'
  <2>1. \A v \in Worker : Newer(age[v], age'[v])
    BY <1>3, <1>5 DEF Newer
  <2>2. age'[w] # age[w]
    BY <1>5
  <2>3. \A v \in Worker : age'[v] = age[v] /\ age[v].top \in Avail(v) =>
           age[v].top \in Avail(v)' /\ deq'[v][age[v].top] = deq[v][age[v].top]
    BY <1>4, <2>2
  <2>. QED
    BY <1>3, <2>1, <2>3, ThiefKept DEF DequeInv
<1>9. ThiefInv(w)'
  BY <1>3 DEF ThiefInv
<1>. QED
  BY <1>3, <1>4, <1>6, <1>7, <1>8, <1>9 DEF DequeInv

\* pop_bottom competes for the last job: it gets it, or nothing is left to be had.
LEMMA BottomSwapStep ==
  ASSUME DequeInv, NEW w \in Worker, D!BottomSwap(w)
  PROVE  /\ DequeInv'
         /\ \/ SameSlots /\ SameHeld /\ reg'[w].at = "bottom4"
            \/ \E s \in Nat : Takes(w, w, s) /\ reg'[w] = D!Returned(deq[w][s])
         /\ \A u \in Worker \ {w} : reg'[u] = reg[u]
<1>. PICK o : o = reg[w]
  OBVIOUS
<1>. PICK t : t = age[w].top
  OBVIOUS
<1>. PICK b : b = o.bot
  OBVIOUS
<1>1. /\ o.at = "bottom3" /\ o = [at |-> o.at, old |-> o.old, bot |-> o.bot]
      /\ o.old \in AgeType /\ b \in 0 .. QSize - 1 /\ b \in Nat /\ t \in Nat
      /\ bot' = bot /\ deq' = deq /\ age[w] \in AgeType /\ DOMAIN reg = Worker
  <2>1. o.at = "bottom3" /\ bot' = bot /\ deq' = deq
    BY DEF D!BottomSwap
  <2>2. o = [at |-> o.at, old |-> o.old, bot |-> o.bot] /\ o.old \in AgeType /\ b \in 0 .. QSize - 1
    BY <2>1 DEF DequeInv, RegOK, Holding
  <2>3. age[w] \in AgeType /\ DOMAIN reg = Worker
    BY DEF DequeInv, DequeTypes
  <2>. QED
    BY <2>1, <2>2, <2>3 DEF AgeType
<1>2. /\ bot[w] = 0 /\ b <= o.old.top /\ o.old.top <= t /\ t <= b + 1
      /\ o.old.tag = age[w].tag
  BY <1>1 DEF DequeInv, OwnerInv, Lowering
<1>3. Avail(w) = {s \in {b} : s = t} /\ HeldJob(w) = NoJob
  BY <1>1 DEF Avail, HeldJob, Holding
<1>4. CASE b = o.old.top /\ age[w] = o.old
  <2>. PICK r : r = [at |-> "returned", job |-> deq[w][b]]
    OBVIOUS
  <2>1. /\ reg' = [reg EXCEPT ![w] = r] /\ age' = [age EXCEPT ![w] = D!Renewed(o.old)]
        /\ r = D!Returned(deq[w][b])
    BY <1>4 DEF D!BottomSwap, D!Goto, D!Returned
  <2>2. reg'[w] = r /\ \A u \in Worker \ {w} : reg'[u] = reg[u]
    BY <1>1, <2>1
  <2>3. RegOK(w)'
    <3>1. deq[w][b] \in Ranges \cup {NoJob}
      BY <1>1 DEF DequeInv, DequeTypes
    <3>. QED
      BY <2>2, <3>1 DEF RegOK, Holding
  <2>4. r.at \notin Reading /\ r.at \notin Lowering \cup {"pushed"} /\ HeldJob(w)' = deq[w][b]
    BY <2>2 DEF Reading, Lowering, HeldJob, Holding
  <2>5. /\ DequeInv' /\ Avail(w)' = {}
        /\ \A v \in Worker \ {w} : Avail(v)' = Avail(v) /\ HeldJob(v)' = HeldJob(v)
    BY <1>1, <1>2, <2>1, <2>3, <2>4, RenewKeeps
  <2>6. Avail(w) = {b}
    BY <1>3, <1>4
  <2>7. Avail(w)' = Avail(w) \ {b} /\ b \in Avail(w) /\ \A s \in Avail(w) : s <= b
    BY <1>1, <2>5, <2>6
  <2>8. Takes(w, w, b)
    BY <1>1, <1>3, <2>4, <2>5, <2>7 DEF Takes
  <2>. QED
    BY <1>1, <2>1, <2>2, <2>5, <2>8
<1>5. CASE ~ (b = o.old.top /\ age[w] = o.old)
  <2>. PICK r : r = [at |-> "bottom4", old |-> o.old, bot |-> b]
    OBVIOUS
  <2>1. reg' = [reg EXCEPT ![w] = r] /\ age' = age
    <3>1. [o EXCEPT !.at = "bottom4"] = r
      BY <1>1
    <3>. QED
      BY <1>5, <3>1 DEF D!BottomSwap, D!Goto
  <2>2. reg'[w] = r /\ age'[w] = age[w] /\ bot'[w] = bot[w]
        /\ \A u \in Worker \ {w} : reg'[u] = reg[u]
    BY <1>1, <2>1
  <2>3. RegOK(w)'
    BY <1>1, <2>2 DEF RegOK
  <2>4. OwnerInv(w)' /\ ThiefInv(w)' /\ HeldJob(w)' = NoJob
    BY <1>2, <2>2 DEF OwnerInv, Lowering, ThiefInv, Reading, HeldJob, Holding
  <2>5. Avail(w)' = {}
    BY <2>2 DEF Avail
  <2>6. b # t
    <3>1. o.old = [tag |-> o.old.tag, top |-> o.old.top] /\ o.old.top \in Nat
      BY <1>1 DEF AgeType
    <3>2. age[w] = [tag |-> age[w].tag, top |-> t]
      BY <1>1 DEF AgeType
    <3>. QED
      BY <1>1, <1>2, <1>5, <3>1, <3>2
  <2>7. Avail(w)' = Avail(w)
    BY <1>3, <2>5, <2>6
  <2>8. DequeInv' /\ SameSlots /\ \A v \in Worker \ {w} : HeldJob(v)' = HeldJob(v)
    BY <1>1, <2>1, <2>3, <2>4, <2>7, RegistersOnly
  <2>. QED
    BY <1>3, <2>2, <2>4, <2>8 DEF SameHeld
<1>. QED
  BY <1>4, <1>5

\* pop_bottom gives up: its deque is empty, and marked so with a new tag.
LEMMA BottomGiveUpStep ==
  ASSUME DequeInv, NEW w \in Worker, D!BottomGiveUp(w)
  PROVE  /\ DequeInv' /\ SameSlots /\ SameHeld
         /\ reg'[w] = D!Returned(NoJob) /\ Avail(w) = {}
         /\ \A u \in Worker \ {w} : reg'[u] = reg[u]
<1>. PICK o : o = reg[w]
  OBVIOUS
<1>. PICK r : r = [at |-> "returned", job |-> NoJob]
  OBVIOUS
<1>1. /\ o.at = "bottom4" /\ o.old \in AgeType /\ DOMAIN reg = Worker
      /\ bot' = bot /\ deq' = deq
  BY DEF D!BottomGiveUp, DequeInv, RegOK, Holding, DequeTypes
<1>2. /\ reg' = [reg EXCEPT ![w] = r] /\ age' = [age EXCEPT ![w] = D!Renewed(o.old)]
      /\ r = D!Returned(NoJob)
  BY DEF D!BottomGiveUp, D!Goto, D!Returned
<1>3. bot[w] = 0 /\ o.old.tag = age[w].tag
  BY <1>1 DEF DequeInv, OwnerInv, Lowering
<1>4. Avail(w) = {} /\ HeldJob(w) = NoJob
  BY <1>1 DEF Avail, HeldJob, Holding
<1>5. reg'[w] = r /\ \A u \in Worker \ {w} : reg'[u] = reg[u]
  BY <1>1, <1>2
<1>6. RegOK(w)'
  BY <1>5 DEF RegOK, Holding
<1>7. r.at \notin Reading /\ r.at \notin Lowering \cup {"pushed"} /\ HeldJob(w)' = NoJob
  BY <1>5 DEF Reading, Lowering, HeldJob, Holding
<1>8. /\ DequeInv' /\ Avail(w)' = {}
      /\ \A v \in Worker \ {w} : Avail(v)' = Avail(v) /\ HeldJob(v)' = HeldJob(v)
  BY <1>1, <1>2, <1>3, <1>6, <1>7, RenewKeeps
<1>. QED
  BY <1>1, <1>2, <1>4, <1>5, <1>7, <1>8 DEF SameSlots, SameHeld

-----------------------------------------------------------------------------
\* A call's place and the number of calls, after a step.
LEMMA PrimedFrames ==
  /\ \A w, p : F(w, p)' = After(w, p)
  /\ \A w : Height(w)' = Len(stack'[w])
  BY DEF F, After, Height

\* Heights are numbers and calls are typed; the innermost one is at the head.
LEMMA FrameTypes ==
  ASSUME DataInv, StackInv, NEW w \in Worker
  PROVE  /\ Height(w) \in Nat \ {0} /\ stack[w] \in Seq(FrameType) /\ stack[w] # <<>>
         /\ \A p \in 1 .. Height(w) : F(w, p) \in FrameType
         /\ Top(w) = F(w, Height(w))
<1>1. stack[w] \in Seq(FrameType) /\ Len(stack[w]) >= 1 /\ Len(stack[w]) \in Nat
  BY DEF DataInv, StackInv, Height
<1>2. stack[w] # <<>>
  BY <1>1
<1>3. \A p \in 1 .. Height(w) : F(w, p) \in FrameType
  BY DEF StackInv, FrameOK
<1>4. Top(w) = F(w, Height(w))
  <2>1. PICK s : s = stack[w]
    OBVIOUS
  <2>2. s \in Seq(FrameType) /\ s # <<>>
    BY <1>1, <1>2, <2>1
  <2>3. Head(s) = FromBottom(s, Len(s))
    <3>1. PICK e \in FrameType : e = s[1]
      BY <2>2
    <3>. QED
      BY <2>2, <3>1, StackMoves
  <2>. QED
    BY <2>1, <2>3 DEF Top, F, Height, FromBottom
<1>. QED
  BY <1>1, <1>2, <1>3, <1>4 DEF Height

-----------------------------------------------------------------------------
(* What a step does to one stack.                                          *)

Others(w) == \A v \in Worker \ {w} : stack'[v] = stack[v]

\* The first m calls of v are where they were.
Kept(v, m) ==
    /\ m \in 0 .. Height(v) /\ m <= Len(stack'[v])
    /\ \A p \in 1 .. m : After(v, p) = F(v, p)

\* The innermost call of w becomes f, and it calls g, or g and that h; or it returns.
Relabels(w, f) == Len(stack'[w]) = Height(w) /\ After(w, Height(w)) = f
Calls(w, f, g) ==
    /\ Len(stack'[w]) = Height(w) + 1
    /\ After(w, Height(w)) = f /\ After(w, Height(w) + 1) = g
CallsBoth(w, f, g, h) ==
    /\ Len(stack'[w]) = Height(w) + 2
    /\ After(w, Height(w)) = f /\ After(w, Height(w) + 1) = g /\ After(w, Height(w) + 2) = h
Returns(w) == Len(stack'[w]) = Height(w) - 1

\* Replacing the head leaves the calls below it in their place.
LEMMA OneMove ==
  ASSUME NEW s \in Seq(FrameType), s # <<>>, NEW f \in FrameType
  PROVE  /\ One(s, f) \in Seq(FrameType) /\ Len(One(s, f)) = Len(s)
         /\ FromBottom(One(s, f), Len(s)) = f
         /\ \A p \in 1 .. Len(s) - 1 : FromBottom(One(s, f), p) = FromBottom(s, p)
  BY StackMoves

\* What the four shapes of stack that actions make do to places: the innermost call
\* moves on, calls one or two others, or returns.
LEMMA Shapes ==
  ASSUME DataInv, StackInv, NEW w \in Worker, NEW f \in FrameType, NEW g \in FrameType,
         NEW e \in FrameType
  PROVE  /\ Become(w, One(stack[w], f)) =>
              /\ stack' \in [Worker -> Seq(FrameType)] /\ Others(w)
              /\ Relabels(w, f) /\ Kept(w, Height(w) - 1)
         /\ Become(w, Two(stack[w], f, g)) =>
              /\ stack' \in [Worker -> Seq(FrameType)] /\ Others(w)
              /\ Calls(w, f, g) /\ Kept(w, Height(w) - 1)
         /\ Become(w, Three(stack[w], f, e, g)) =>
              /\ stack' \in [Worker -> Seq(FrameType)] /\ Others(w)
              /\ CallsBoth(w, f, e, g) /\ Kept(w, Height(w) - 1)
         /\ Become(w, Under(w)) =>
              /\ stack' \in [Worker -> Seq(FrameType)] /\ Others(w)
              /\ Returns(w) /\ Kept(w, Height(w) - 1)
<1>a. PICK s : s = stack[w]
  OBVIOUS
<1>b. PICK h : h = Height(w)
  OBVIOUS
<1>1. s \in Seq(FrameType) /\ s # <<>> /\ h = Len(s) /\ h \in Nat \ {0} /\ Under(w) = Tail(s)
  BY <1>a, <1>b, FrameTypes DEF Height, Under
<1>2. \A p \in 1 .. h : F(w, p) = FromBottom(s, p)
  BY <1>a, <1>1 DEF F, FromBottom
<1>3. ASSUME NEW t \in Seq(FrameType), Become(w, t)
      PROVE  /\ stack' \in [Worker -> Seq(FrameType)] /\ Others(w)
             /\ Len(stack'[w]) = Len(t) /\ \A p : After(w, p) = FromBottom(t, p)
  BY <1>3 DEF DataInv, Become, Others, After, FromBottom
<1>4. ASSUME Become(w, One(s, f))
      PROVE  /\ stack' \in [Worker -> Seq(FrameType)] /\ Others(w)
             /\ Relabels(w, f) /\ Kept(w, Height(w) - 1)
  <2>a. PICK t : t = One(s, f)
    OBVIOUS
  <2>1. /\ t \in Seq(FrameType) /\ Len(t) = Len(s) /\ FromBottom(t, Len(s)) = f
        /\ \A p \in 1 .. Len(s) - 1 : FromBottom(t, p) = FromBottom(s, p)
    BY <1>1, <2>a, OneMove
  <2>2. /\ stack' \in [Worker -> Seq(FrameType)] /\ Others(w)
        /\ Len(stack'[w]) = Len(t) /\ \A p : After(w, p) = FromBottom(t, p)
    BY <1>3, <1>4, <2>a, <2>1
  <2>3. Kept(w, h - 1)
    BY <1>b, <1>1, <1>2, <2>1, <2>2 DEF Kept
  <2>4. Relabels(w, f)
    BY <1>b, <1>1, <2>1, <2>2 DEF Relabels
  <2>. QED
    BY <1>b, <2>2, <2>3, <2>4
<1>5. ASSUME Become(w, Two(s, f, g))
      PROVE  /\ stack' \in [Worker -> Seq(FrameType)] /\ Others(w)
             /\ Calls(w, f, g) /\ Kept(w, Height(w) - 1)
  <2>a. PICK t : t = Two(s, f, g)
    OBVIOUS
  <2>1. /\ t \in Seq(FrameType) /\ Len(t) = Len(s) + 1
        /\ FromBottom(t, Len(s) + 1) = g /\ FromBottom(t, Len(s)) = f
        /\ \A p \in 1 .. Len(s) - 1 : FromBottom(t, p) = FromBottom(s, p)
    BY <1>1, <2>a, StackMoves, SMTT(30)
  <2>2. /\ stack' \in [Worker -> Seq(FrameType)] /\ Others(w)
        /\ Len(stack'[w]) = Len(t) /\ \A p : After(w, p) = FromBottom(t, p)
    BY <1>3, <1>5, <2>a, <2>1
  <2>3. Kept(w, h - 1)
    BY <1>b, <1>1, <1>2, <2>1, <2>2 DEF Kept
  <2>4. Calls(w, f, g)
    BY <1>b, <1>1, <2>1, <2>2 DEF Calls
  <2>. QED
    BY <1>b, <2>2, <2>3, <2>4
<1>6. ASSUME Become(w, Three(s, f, e, g))
      PROVE  /\ stack' \in [Worker -> Seq(FrameType)] /\ Others(w)
             /\ CallsBoth(w, f, e, g) /\ Kept(w, Height(w) - 1)
  <2>a. PICK t : t = Three(s, f, e, g)
    OBVIOUS
  <2>1. /\ t \in Seq(FrameType) /\ Len(t) = Len(s) + 2
        /\ FromBottom(t, Len(s) + 2) = g /\ FromBottom(t, Len(s) + 1) = e
        /\ FromBottom(t, Len(s)) = f
        /\ \A p \in 1 .. Len(s) - 1 : FromBottom(t, p) = FromBottom(s, p)
    BY <1>1, <2>a, StackMoves, SMTT(30)
  <2>2. /\ stack' \in [Worker -> Seq(FrameType)] /\ Others(w)
        /\ Len(stack'[w]) = Len(t) /\ \A p : After(w, p) = FromBottom(t, p)
    BY <1>3, <1>6, <2>a, <2>1
  <2>3. Kept(w, h - 1)
    BY <1>b, <1>1, <1>2, <2>1, <2>2 DEF Kept
  <2>4. CallsBoth(w, f, e, g)
    BY <1>b, <1>1, <2>1, <2>2 DEF CallsBoth
  <2>. QED
    BY <1>b, <2>2, <2>3, <2>4
<1>7. ASSUME Become(w, Tail(s))
      PROVE  /\ stack' \in [Worker -> Seq(FrameType)] /\ Others(w)
             /\ Returns(w) /\ Kept(w, Height(w) - 1)
  <2>a. PICK t : t = Tail(s)
    OBVIOUS
  <2>1. /\ t \in Seq(FrameType) /\ Len(t) = Len(s) - 1
        /\ \A p \in 1 .. Len(s) - 1 : FromBottom(t, p) = FromBottom(s, p)
    BY <1>1, <2>a, StackMoves, SMTT(30)
  <2>2. /\ stack' \in [Worker -> Seq(FrameType)] /\ Others(w)
        /\ Len(stack'[w]) = Len(t) /\ \A p : After(w, p) = FromBottom(t, p)
    BY <1>3, <1>7, <2>a, <2>1
  <2>3. Kept(w, h - 1)
    BY <1>b, <1>1, <1>2, <2>1, <2>2 DEF Kept
  <2>4. Returns(w)
    BY <1>b, <1>1, <2>1, <2>2 DEF Returns
  <2>. QED
    BY <1>b, <2>2, <2>3, <2>4
<1>. QED
  BY <1>a, <1>1, <1>4, <1>5, <1>6, <1>7

-----------------------------------------------------------------------------
(* What a step must do on one stack to preserve the parts of the invariant *)
(* that are about stacks: about the calls above the m it keeps.            *)

\* The shape of stacks survives a step that makes only well-formed calls.
LEMMA StackKept ==
  ASSUME StackInv, stack' \in [Worker -> Seq(FrameType)],
         granularity >= 1 => granularity' >= 1,
         \A v \in Worker : \E m : /\ Kept(v, m) /\ Len(stack'[v]) >= 1
            /\ \A p \in m + 1 .. Len(stack'[v]) :
                 /\ FrameOK(After(v, p))
                 /\ p = 1 => After(v, p).op \in {"main", "worker"}
                 /\ After(v, p).op = "main" => v = Main /\ p = 1
                 /\ After(v, p).op \in {"for", "do"} => granularity' >= 1
  PROVE  StackInv'
<1> SUFFICES ASSUME NEW v \in Worker
             PROVE  /\ Len(stack'[v]) >= 1 /\ After(v, 1).op \in {"main", "worker"}
                    /\ \A p \in 1 .. Len(stack'[v]) :
                         /\ FrameOK(After(v, p))
                         /\ After(v, p).op = "main" => v = Main /\ p = 1
                         /\ After(v, p).op \in {"for", "do"} => granularity' >= 1
  <2>1. \A f : FrameOK(f)' <=> FrameOK(f)
    BY DEF FrameOK
  <2>. QED
    BY <2>1, PrimedFrames DEF StackInv
<1>. PICK m : /\ Kept(v, m) /\ Len(stack'[v]) >= 1
              /\ \A p \in m + 1 .. Len(stack'[v]) :
                 /\ FrameOK(After(v, p))
                 /\ p = 1 => After(v, p).op \in {"main", "worker"}
                 /\ After(v, p).op = "main" => v = Main /\ p = 1
                 /\ After(v, p).op \in {"for", "do"} => granularity' >= 1
  OBVIOUS
<1>1. Len(stack'[v]) \in Nat
  OBVIOUS
<1>2. \A p \in 1 .. Len(stack'[v]) :
         p \in m + 1 .. Len(stack'[v]) \/ (p \in 1 .. Height(v) /\ p \in 1 .. m)
  BY <1>1 DEF Kept, Height
<1>3. 1 \in 1 .. Len(stack'[v])
  BY <1>1
<1>. QED
  BY <1>2, <1>3 DEF StackInv, Kept

\* What has been run stays run.
LEMMA RanGrows ==
  ASSUME DataInv, \A i \in Start .. End - 1 : hits'[i] \in Nat /\ hits'[i] >= hits[i]
  PROVE  /\ \A lo, hi : Ran(lo, hi) => Ran(lo, hi)'
         /\ \A g, f : Called(g, f) => Called(g, f)'
         /\ \A g : Behind(g) => Behind(g)'
<1>1. \A lo, hi : Ran(lo, hi) => Ran(lo, hi)'
  BY DEF DataInv, Ran
<1>2. \A g, f : Called(g, f) => Called(g, f)'
  BY <1>1 DEF Called
<1>3. \A g : Behind(g) => Behind(g)'
  BY <1>1 DEF Behind
<1>. QED
  BY <1>1, <1>2, <1>3

\* What has been run survives, given the returned and the new calls' own part of it.
LEMMA RanKept ==
  ASSUME DataInv, StackInv, RanInv, stack' \in [Worker -> Seq(FrameType)],
         \A i \in Start .. End - 1 : hits'[i] \in Nat /\ hits'[i] >= hits[i],
         \A v \in Worker : \E m :
            /\ Kept(v, m)
            /\ \A p \in 1 .. Height(v)' - 1 : p >= m => Called(F(v, p), F(v, p + 1))'
            /\ Behind(F(v, Height(v)))',
         \A j \in done' : j \in done \/ Ran(j[1], j[2])',
         finishedFlag' => Ran(Start, End)' /\ F(Main, 1)'.at \in Final
  PROVE  RanInv'
<1>1. ASSUME NEW v \in Worker, NEW p \in 1 .. Height(v)' - 1
      PROVE  Called(F(v, p), F(v, p + 1))'
  <2>1. PICK m : /\ Kept(v, m)
                 /\ p >= m => Called(F(v, p), F(v, p + 1))'
    OBVIOUS
  <2>2. CASE p < m
    <3>1. p \in 1 .. m /\ p + 1 \in 1 .. m /\ p \in 1 .. Height(v) - 1
      BY <2>1, <2>2, FrameTypes DEF Kept
    <3>2. F(v, p)' = F(v, p) /\ F(v, p + 1)' = F(v, p + 1)
      BY <2>1, <3>1, PrimedFrames DEF Kept
    <3>3. Called(F(v, p), F(v, p + 1))
      BY <3>1 DEF RanInv
    <3>4. PICK g, f : g = F(v, p) /\ f = F(v, p + 1)
      OBVIOUS
    <3>5. Called(g, f)'
      BY <3>3, <3>4, RanGrows
    <3>6. g = F(v, p)' /\ f = F(v, p + 1)'
      BY <3>2, <3>4
    <3>. QED
      BY <3>5, <3>6
  <2>3. m \in Nat
    BY <2>1, FrameTypes DEF Kept
  <2>. QED
    BY <2>1, <2>2, <2>3
<1>2. ASSUME NEW j \in done' PROVE Ran(j[1], j[2])'
  BY RanGrows DEF RanInv
<1>. QED
  BY <1>1, <1>2 DEF RanInv, Final

\* What must not happen above the m calls of v that are kept, for its slots to stay matched.
LEMMA MatchKept ==
  ASSUME DataInv, StackInv, StackInv', DequeTypes, NEW v \in Worker, NEW m, Kept(v, m),
         stack' \in [Worker -> Seq(FrameType)],
         Avail(v)' = Avail(v), deq'[v] = deq[v],
         \A p \in 1 .. m : Pending(v, p)' <=> Pending(v, p),
         \A p \in 1 .. Height(v) : p > m /\ Pending(v, p) =>
            /\ p <= Height(v)' /\ Pending(v, p)'
            /\ RightJob(After(v, p)) = RightJob(F(v, p)),
         \A p \in 1 .. Height(v)' : p > m =>
            /\ Pending(v, p)' => p <= Height(v) /\ Pending(v, p)
            /\ Seeker(After(v, p)) => Avail(v) = {} \/ (p <= Height(v) /\ Seeker(F(v, p))),
         \E pos \in [Avail(v) -> 1 .. Height(v)] : Matches(v, pos)
  PROVE  \E pos \in [Avail(v)' -> 1 .. Height(v)'] : Matches(v, pos)'
<1>1. PICK pos \in [Avail(v) -> 1 .. Height(v)] : Matches(v, pos)
  OBVIOUS
<1>2. /\ m \in Nat /\ Height(v) \in Nat \ {0} /\ Height(v)' \in Nat
      /\ m <= Height(v) /\ m <= Height(v)'
      /\ \A p \in 1 .. m : F(v, p)' = F(v, p)
  BY FrameTypes, PrimedFrames DEF Kept, StackInv, Height
<1>3. \A s \in Avail(v) : /\ pos[s] \in 1 .. Height(v)'
                          /\ Pending(v, pos[s])'
                          /\ deq'[v][s] = RightJob(F(v, pos[s])')
  <2> SUFFICES ASSUME NEW s \in Avail(v)
               PROVE  /\ pos[s] \in 1 .. Height(v)'
                      /\ Pending(v, pos[s])'
                      /\ deq'[v][s] = RightJob(F(v, pos[s])')
    OBVIOUS
  <2>1. PICK p : p = pos[s]
    OBVIOUS
  <2>2. p \in 1 .. Height(v) /\ Pending(v, p) /\ deq[v][s] = RightJob(F(v, p))
    BY <1>1, <2>1 DEF Matches
  <2>3. CASE p \in 1 .. m
    <3>1. p \in 1 .. Height(v)' /\ Pending(v, p)' /\ F(v, p)' = F(v, p)
      BY <1>2, <2>2, <2>3
    <3>. QED
      BY <2>1, <2>2, <3>1
  <2>4. CASE p > m
    <3>1. p \in 1 .. Height(v)' /\ Pending(v, p)' /\ RightJob(F(v, p)') = RightJob(F(v, p))
      BY <1>2, <2>2, <2>4, PrimedFrames
    <3>. QED
      BY <2>1, <2>2, <3>1
  <2>. QED
    BY <1>2, <2>2, <2>3, <2>4
<1>4. \A s \in Avail(v), p \in 1 .. Height(v)' :
         p > pos[s] => /\ ~ Seeker(F(v, p)')
                       /\ Pending(v, p)' => \E u \in Avail(v) : pos[u] = p
  <2> SUFFICES ASSUME NEW s \in Avail(v), NEW p \in 1 .. Height(v)', p > pos[s]
               PROVE  /\ ~ Seeker(F(v, p)')
                      /\ Pending(v, p)' => \E u \in Avail(v) : pos[u] = p
    OBVIOUS
  <2>1. p \in 1 .. Height(v) => /\ ~ Seeker(F(v, p))
                                /\ Pending(v, p) => \E u \in Avail(v) : pos[u] = p
    BY <1>1 DEF Matches
  <2>2. CASE p \in 1 .. m
    <3>1. p \in 1 .. Height(v) /\ F(v, p)' = F(v, p) /\ (Pending(v, p)' <=> Pending(v, p))
      BY <1>2, <2>2
    <3>. QED
      BY <2>1, <3>1
  <2>3. CASE p > m
    <3>1. p <= Height(v) => p \in 1 .. Height(v)
      BY <1>2
    <3>2. Seeker(F(v, p)') => p <= Height(v) /\ Seeker(F(v, p))
      BY <1>2, <2>3, PrimedFrames
    <3>3. Pending(v, p)' => p <= Height(v) /\ Pending(v, p)
      BY <1>2, <2>3
    <3>. QED
      BY <2>1, <3>1, <3>2, <3>3
  <2>. QED
    BY <1>2, <2>2, <2>3
<1>5. Matches(v, pos)'
  BY <1>1, <1>3, <1>4 DEF Matches
<1>6. pos \in [Avail(v) -> 1 .. Height(v)']
  BY <1>3
<1>. QED
  BY <1>5, <1>6

-----------------------------------------------------------------------------
(* Iterations and jobs change hands.                                       *)

\* What the names of shares and jobs stand for, before and after a step.
LEMMA Names ==
  /\ \A v \in Worker, p \in Nat : /\ <<"frame", v, p>> \in Name /\ <<"slot", v, p>> \in Name
                                  /\ <<"held", v, 0>> \in Name
  /\ \A x \in Name : \E v \in Worker, p \in Nat :
        x = <<"frame", v, p>> \/ x = <<"slot", v, p>> \/ x = <<"held", v, 0>>
  /\ \A v, p : /\ JobOf(<<"frame", v, p>>) = FrameJob(v, p)
               /\ JobOf(<<"slot", v, p>>) = SlotJob(v, p)
               /\ JobOf(<<"held", v, p>>) = HeldJob(v)
               /\ Share(<<"frame", v, p>>) = FrameShare(v, p)
               /\ Share(<<"slot", v, p>>) = JobSpan(SlotJob(v, p))
               /\ Share(<<"held", v, p>>) = JobSpan(HeldJob(v))
  /\ \A v, p : /\ JobOf(<<"frame", v, p>>)' = FrameJob(v, p)'
               /\ JobOf(<<"slot", v, p>>)' = SlotJob(v, p)'
               /\ JobOf(<<"held", v, p>>)' = HeldJob(v)'
               /\ Share(<<"frame", v, p>>)' = FrameShare(v, p)'
               /\ Share(<<"slot", v, p>>)' = JobSpan(SlotJob(v, p)')
               /\ Share(<<"held", v, p>>)' = JobSpan(HeldJob(v)')
  /\ \A j : JobSpan(j)' = JobSpan(j)
<1>1. \A v \in Worker, p \in Nat : /\ <<"frame", v, p>> \in Name /\ <<"slot", v, p>> \in Name
                                   /\ <<"held", v, 0>> \in Name
  BY DEF Name
<1>2. \A x \in Name : \E v \in Worker, p \in Nat :
        x = <<"frame", v, p>> \/ x = <<"slot", v, p>> \/ x = <<"held", v, 0>>
  BY DEF Name
<1>3. \A v, p : /\ JobOf(<<"frame", v, p>>) = FrameJob(v, p)
                /\ JobOf(<<"slot", v, p>>) = SlotJob(v, p)
                /\ JobOf(<<"held", v, p>>) = HeldJob(v)
  BY DEF JobOf
<1>4. \A v, p : /\ JobOf(<<"frame", v, p>>)' = FrameJob(v, p)'
                /\ JobOf(<<"slot", v, p>>)' = SlotJob(v, p)'
                /\ JobOf(<<"held", v, p>>)' = HeldJob(v)'
  BY DEF JobOf
<1>5. \A j : JobSpan(j)' = JobSpan(j)
  BY DEF JobSpan, Span
<1>6. \A v, p : /\ Share(<<"frame", v, p>>) = FrameShare(v, p)
                /\ Share(<<"slot", v, p>>) = JobSpan(SlotJob(v, p))
                /\ Share(<<"held", v, p>>) = JobSpan(HeldJob(v))
  BY <1>3 DEF Share
<1>7. \A v, p : /\ Share(<<"frame", v, p>>)' = FrameShare(v, p)'
                /\ Share(<<"slot", v, p>>)' = JobSpan(SlotJob(v, p)')
                /\ Share(<<"held", v, p>>)' = JobSpan(HeldJob(v)')
  BY <1>4, <1>5 DEF Share
<1>. QED
  BY <1>1, <1>2, <1>3, <1>4, <1>5, <1>6, <1>7

\* Some of what a answers for passes to b, and some of it, I, is run.
LEMMA ShareStep ==
  ASSUME DataInv, ShareInv, NEW a \in Name, NEW b \in Name, NEW I,
         \A x \in Name \ {b} : Share(x)' \subseteq Share(x),
         Share(b)' \subseteq Share(b) \cup Share(a),
         a # b => Share(a)' \cap Share(b)' = {},
         I \subseteq Share(a), Share(a)' \cap I = {}, Share(b)' \cap I = {},
         hits' = [i \in DOMAIN hits |-> hits[i] + IF i \in I THEN 1 ELSE 0]
  PROVE  ShareInv'
<1>1. ASSUME NEW x \in Name, NEW y \in Name, x # y
      PROVE  Share(x)' \cap Share(y)' = {}
  <2>1. Share(x) \cap Share(y) = {}
    BY <1>1 DEF ShareInv
  <2>2. \A z \in Name : z # a => Share(z) \cap Share(a) = {}
    BY DEF ShareInv
  <2>3. \A z \in Name : z # b => Share(z) \cap Share(b) = {}
    BY DEF ShareInv
  <2>4. CASE x # b /\ y # b
    BY <2>1, <2>4
  <2>5. CASE x = b
    BY <1>1, <2>2, <2>3, <2>5
  <2>6. CASE y = b
    BY <1>1, <2>2, <2>3, <2>6
  <2>. QED
    BY <2>4, <2>5, <2>6
<1>2. \A x \in Name : Share(x) \subseteq Start .. End - 1
  BY DEF Share, FrameShare, FrameSpan, JobSpan, Span
<1>3. ASSUME NEW x \in Name, NEW i \in Share(x)'
      PROVE  hits'[i] = 0
  <2>1. i \in Share(x) \/ (x = b /\ i \in Share(a))
    OBVIOUS
  <2>2. hits[i] = 0 /\ i \in Start .. End - 1
    BY <1>2, <2>1 DEF ShareInv
  <2>3. i \notin I
    <3>1. CASE x = a \/ x = b
      BY <3>1
    <3>2. CASE x # a /\ x # b
      <4>1. i \in Share(x) /\ Share(x) \cap Share(a) = {}
        BY <3>2 DEF ShareInv
      <4>. QED
        BY <4>1
    <3>. QED
      BY <3>1, <3>2
  <2>. QED
    BY <2>2, <2>3 DEF DataInv
<1>4. ASSUME NEW i \in Start .. End - 1
      PROVE  hits'[i] <= 1
  <2>1. hits[i] \in Nat /\ hits[i] <= 1 /\ hits'[i] = hits[i] + IF i \in I THEN 1 ELSE 0
    BY DEF DataInv, ShareInv
  <2>2. i \in I => hits[i] = 0
    BY DEF ShareInv
  <2>. QED
    BY <2>1, <2>2
<1>. QED
  BY <1>1, <1>3, <1>4 DEF ShareInv

\* The jobs stay where they are, except that b has got one, or none.
LEMMA JobStep ==
  ASSUME JobInv, NEW b \in Name,
         \A x \in Name \ {b} : JobOf(x)' = JobOf(x) \/ JobOf(x)' = NoJob,
         \A x \in Name \ {b} : JobOf(x)' = JobOf(b)' => JobOf(b)' = NoJob,
         \A x \in Name : JobOf(x)' # NoJob =>
            \/ \E z \in Name : JobOf(z) = JobOf(x)'
            \/ /\ JobOf(x)' \notin done'
               /\ \E v \in Worker, p \in Nat : Waiting(v, p)' /\ RightJob(F(v, p)') = JobOf(x)',
         \A j \in done' : j \in done \/ \A x \in Name : JobOf(x)' # j,
         \A v \in Worker, p \in Nat : Waiting(v, p) =>
            \/ Waiting(v, p)' /\ RightJob(F(v, p)') = RightJob(F(v, p))
            \/ \A x \in Name : JobOf(x)' # RightJob(F(v, p)),
         \A y \in Name : \E z \in Name : Share(y)' \subseteq Share(z),
         \A x \in Name : x[1] = "frame" /\ JobOf(x)' # NoJob =>
            \/ JobOf(x)' = JobOf(x)
            \/ \A y \in Name : \/ Share(y)' \subseteq JobSpan(JobOf(x)')
                               \/ Share(y)' \cap JobSpan(JobOf(x)') = {}
  PROVE  JobInv'
<1>1. ASSUME NEW x \in Name, NEW y \in Name, x # y, JobOf(x)' = JobOf(y)'
      PROVE  JobOf(x)' = NoJob
  <2>1. CASE x # b /\ y # b
    <3>1. JobOf(x) = JobOf(y) => JobOf(x) = NoJob
      BY <1>1 DEF JobInv
    <3>. QED
      BY <1>1, <2>1, <3>1
  <2>2. CASE x = b
    BY <1>1, <2>2
  <2>3. CASE y = b
    BY <1>1, <2>3
  <2>. QED
    BY <2>1, <2>2, <2>3
<1>2. ASSUME NEW x \in Name, JobOf(x)' # NoJob
      PROVE  /\ JobOf(x)' \notin done'
             /\ \E v \in Worker, p \in Nat : Waiting(v, p)' /\ RightJob(F(v, p)') = JobOf(x)'
  <2>1. CASE \E z \in Name : JobOf(z) = JobOf(x)'
    <3>1. PICK z \in Name : JobOf(z) = JobOf(x)'
      BY <2>1
    <3>2. JobOf(z) \notin done
      BY <1>2, <3>1 DEF JobInv
    <3>3. PICK v \in Worker, p \in Nat : Waiting(v, p) /\ RightJob(F(v, p)) = JobOf(z)
      BY <1>2, <3>1 DEF JobInv
    <3>4. JobOf(x)' \notin done'
      BY <3>1, <3>2
    <3>5. Waiting(v, p)' /\ RightJob(F(v, p)') = RightJob(F(v, p))
      BY <3>1, <3>3
    <3>. QED
      BY <3>1, <3>3, <3>4, <3>5
  <2>. QED
    BY <1>2, <2>1
<1>3. ASSUME NEW x \in Name, NEW y \in Name, x[1] = "frame", JobOf(x)' # NoJob
      PROVE  Share(y)' \subseteq JobSpan(JobOf(x)') \/ Share(y)' \cap JobSpan(JobOf(x)') = {}
  <2>1. CASE JobOf(x)' = JobOf(x)
    <3>1. PICK z \in Name : Share(y)' \subseteq Share(z)
      OBVIOUS
    <3>2. Share(z) \subseteq JobSpan(JobOf(x)) \/ Share(z) \cap JobSpan(JobOf(x)) = {}
      BY <1>3, <2>1 DEF JobInv
    <3>. QED
      BY <2>1, <3>1, <3>2
  <2>. QED
    BY <1>3, <2>1
<1>4. \A f : RightJob(f)' = RightJob(f)
  BY DEF RightJob, Mid
<1>. QED
  BY <1>1, <1>2, <1>3, <1>4, Names DEF JobInv

\* Iterations, jobs and waiting pardos of the calls that a step keeps.
LEMMA PlacesKept ==
  ASSUME DataInv, StackInv, stack' \in [Worker -> Seq(FrameType)]
  PROVE
  /\ SameSlots => \A v \in Worker : \A s : SlotJob(v, s)' = SlotJob(v, s)
  /\ \A v \in Worker : \A m : Kept(v, m) => \A p \in 1 .. m :
        /\ FrameShare(v, p)' = FrameShare(v, p) /\ FrameJob(v, p)' = FrameJob(v, p)
        /\ Waiting(v, p)' <=> Waiting(v, p)
        /\ F(v, p)' = F(v, p)
  /\ \A v \in Worker : stack'[v] = stack[v] => \A p :
        /\ FrameShare(v, p)' = FrameShare(v, p) /\ FrameJob(v, p)' = FrameJob(v, p)
        /\ Waiting(v, p)' <=> Waiting(v, p)
        /\ F(v, p)' = F(v, p) /\ Height(v)' = Height(v)
  /\ \A v, p : FrameShare(v, p)' = IF p \in 1 .. Len(stack'[v]) THEN FrameSpan(After(v, p)) ELSE {}
  /\ \A v, p : FrameJob(v, p)' = IF p \in 1 .. Len(stack'[v]) /\ After(v, p).op = "job"
                                 THEN <<After(v, p).lo, After(v, p).hi>> ELSE NoJob
  /\ \A v, p : Waiting(v, p)' <=> /\ p \in 1 .. Len(stack'[v])
                                  /\ After(v, p).op = "do" /\ After(v, p).at # "joined"
<1>1. SameSlots => \A v \in Worker : \A s : SlotJob(v, s)' = SlotJob(v, s)
  BY DEF SameSlots, SlotJob
<1>2. \A f : FrameSpan(f)' = FrameSpan(f)
  BY DEF FrameSpan, Span, Mid
<1>3. \A v, p : FrameShare(v, p)' = IF p \in 1 .. Len(stack'[v]) THEN FrameSpan(After(v, p)) ELSE {}
  BY <1>2, PrimedFrames DEF FrameShare
<1>4. \A v, p : FrameJob(v, p)' = IF p \in 1 .. Len(stack'[v]) /\ After(v, p).op = "job"
                                  THEN <<After(v, p).lo, After(v, p).hi>> ELSE NoJob
  BY PrimedFrames DEF FrameJob
<1>5. \A v, p : Waiting(v, p)' <=> /\ p \in 1 .. Len(stack'[v])
                                   /\ After(v, p).op = "do" /\ After(v, p).at # "joined"
  BY PrimedFrames DEF Waiting
<1>6. ASSUME NEW v \in Worker, NEW m, Kept(v, m), NEW p \in 1 .. m
      PROVE  /\ FrameShare(v, p)' = FrameShare(v, p) /\ FrameJob(v, p)' = FrameJob(v, p)
             /\ Waiting(v, p)' <=> Waiting(v, p)
             /\ F(v, p)' = F(v, p)
  <2>1. After(v, p) = F(v, p)
    BY <1>6 DEF Kept
  <2>. QED
    <3>1. p \in 1 .. Len(stack'[v]) /\ p \in 1 .. Height(v)
      BY <1>6, FrameTypes DEF Kept
    <3>. QED
      BY <1>3, <1>4, <1>5, <2>1, <3>1, PrimedFrames DEF FrameShare, FrameJob, Waiting
<1>7. ASSUME NEW v \in Worker, stack'[v] = stack[v], NEW p
      PROVE  /\ FrameShare(v, p)' = FrameShare(v, p) /\ FrameJob(v, p)' = FrameJob(v, p)
             /\ Waiting(v, p)' <=> Waiting(v, p)
             /\ F(v, p)' = F(v, p) /\ Height(v)' = Height(v)
  <2>1. After(v, p) = F(v, p) /\ Len(stack'[v]) = Height(v)
    BY <1>7 DEF After, F, Height
  <2>. QED
    BY <1>3, <1>4, <1>5, <2>1, PrimedFrames DEF FrameShare, FrameJob, Waiting
<1>. QED
  BY <1>1, <1>3, <1>4, <1>5, <1>6, <1>7

-----------------------------------------------------------------------------
(* Steps that only move the innermost calls on within their operation.     *)

\* The innermost call f of v has moved on to g without starting or ending anything.
Moves(v, f, g) ==
    \/ g = f
    \/ /\ FrameOK(g) /\ g.op = f.op /\ g.lo = f.lo /\ g.hi = f.hi
       /\ \/ f.op = "main" /\ f.at # "call" /\ g.at # "call"
          \/ f.op = "worker"
          \/ f.op = "do" /\ f.at \notin {"spawn", "joined"} /\ g.at \notin {"spawn", "own"}
       /\ f.at \in Final => g.at \in Final
       /\ f.at = "own" => Avail(v) = {}
       /\ f.op = "do" /\ g.at = "joined" => RightJob(f) \in done
       /\ Behind(g)

OnlyMoves ==
    /\ stack' \in [Worker -> Seq(FrameType)]
    /\ \A v \in Worker : /\ Len(stack'[v]) = Height(v) /\ Kept(v, Height(v) - 1)
                         /\ Moves(v, F(v, Height(v)), After(v, Height(v)))

KeepData == UNCHANGED <<done, hits, granularity, conservative>>

OwnAnswered(w) == Answered(w, "do", "own")

\* A worker that seeks work has an empty deque.
LEMMA SeekerEmpty ==
  ASSUME DataInv, StackInv, MatchInv, NEW v \in Worker,
         ~ Pending(v, Height(v)), Seeker(F(v, Height(v))) \/ Height(v) = 1
  PROVE  Avail(v) = {}
<1>1. PICK pos \in [Avail(v) -> 1 .. Height(v)] : Matches(v, pos)
  BY DEF MatchInv
<1>2. Height(v) \in Nat \ {0}
  BY FrameTypes
<1>. SUFFICES ASSUME NEW s \in Avail(v) PROVE FALSE
  OBVIOUS
<1>3. pos[s] \in 1 .. Height(v) /\ Pending(v, pos[s])
  BY <1>1 DEF Matches
<1>4. Height(v) > pos[s] => ~ Seeker(F(v, Height(v)))
  BY <1>1, <1>2 DEF Matches
<1>. QED
  BY <1>2, <1>3, <1>4

\* When innermost calls only move on, every call keeps its place, kind and range.
LEMMA MoveFrames ==
  ASSUME DataInv, StackInv, OnlyMoves, NEW v \in Worker, NEW p \in 1 .. Height(v)
  PROVE  /\ F(v, p)'.op = F(v, p).op /\ F(v, p)'.lo = F(v, p).lo /\ F(v, p)'.hi = F(v, p).hi
         /\ F(v, p)' = After(v, p) /\ Height(v)' = Height(v) /\ FrameOK(After(v, p))
         /\ RightJob(F(v, p)') = RightJob(F(v, p))
         /\ F(v, p).at \in Final => F(v, p)'.at \in Final
         /\ p # Height(v) => F(v, p)' = F(v, p)
         /\ F(v, p)' # F(v, p) => p = Height(v) /\ Moves(v, F(v, p), F(v, p)')
<1>1. /\ Height(v) \in Nat \ {0} /\ Height(v)' = Height(v) /\ F(v, p)' = After(v, p)
      /\ p # Height(v) => F(v, p)' = F(v, p)
      /\ Moves(v, F(v, Height(v)), After(v, Height(v)))
  BY PrimedFrames, FrameTypes DEF OnlyMoves, Kept
<1>2. FrameOK(F(v, p))
  BY DEF StackInv
<1>3. PICK f, g : f = F(v, p) /\ g = After(v, p)
  OBVIOUS
<1>4. f = g \/ (p = Height(v) /\ Moves(v, f, g))
  BY <1>1, <1>3
<1>5. g.op = f.op /\ g.lo = f.lo /\ g.hi = f.hi /\ FrameOK(g) /\ (f.at \in Final => g.at \in Final)
  BY <1>2, <1>3, <1>4 DEF Moves
<1>6. RightJob(g) = RightJob(f)
  BY <1>5 DEF RightJob, Mid
<1>. QED
  BY <1>1, <1>3, <1>4, <1>5, <1>6

\* When innermost calls only move on, stacks and what has been run stay right.
LEMMA MoveStacks ==
  ASSUME DataInv, StackInv, RanInv, OnlyMoves, KeepData, finishedFlag' \in BOOLEAN,
         finishedFlag' => finishedFlag \/ (Ran(Start, End) /\ After(Main, 1).at \in Final)
  PROVE  DataInv' /\ StackInv' /\ RanInv'
<1>1. DataInv'
  BY DEF DataInv, OnlyMoves, KeepData
<1>2. ASSUME NEW v \in Worker PROVE Height(v) \in Nat \ {0} /\ Height(v)' = Height(v)
  <2>1. Len(stack'[v]) = Height(v)
    BY DEF OnlyMoves
  <2>. QED
    BY <2>1, FrameTypes, PrimedFrames
<1>3. \A v \in Worker : \A p \in 1 .. Height(v) :
         /\ F(v, p)'.op = F(v, p).op /\ F(v, p)'.lo = F(v, p).lo /\ F(v, p)'.hi = F(v, p).hi
         /\ FrameOK(F(v, p)')
         /\ F(v, p).at \in Final => F(v, p)'.at \in Final
  BY MoveFrames
<1>4. StackInv'
  <2>1. \A f : FrameOK(f)' <=> FrameOK(f)
    BY DEF FrameOK
  <2>2. granularity' = granularity
    BY DEF KeepData
  <2>3. \A v \in Worker : 1 \in 1 .. Height(v)
    BY <1>2
  <2>. QED
    BY <1>2, <1>3, <2>1, <2>2, <2>3 DEF StackInv
<1>5. \A lo, hi : Ran(lo, hi)' <=> Ran(lo, hi)
  BY DEF KeepData, Ran
<1>6. RanInv'
  <2>1. \A i \in Start .. End - 1 : hits'[i] \in Nat /\ hits'[i] >= hits[i]
    BY DEF DataInv, KeepData
  <2>2. ASSUME NEW v \in Worker
        PROVE  /\ Kept(v, Height(v) - 1)
               /\ \A p \in 1 .. Height(v)' - 1 : p >= Height(v) - 1 => Called(F(v, p), F(v, p + 1))'
               /\ Behind(F(v, Height(v)))'
    <3>1. Kept(v, Height(v) - 1)
      BY DEF OnlyMoves
    <3>2. ASSUME NEW p \in 1 .. Height(v)' - 1, p >= Height(v) - 1
          PROVE  Called(F(v, p), F(v, p + 1))'
      <4>1. p \in 1 .. Height(v) /\ p + 1 \in 1 .. Height(v) /\ p # Height(v)
            /\ p \in 1 .. Height(v) - 1
        BY <1>2, <3>2
      <4>2. F(v, p)' = F(v, p)
        BY <4>1, MoveFrames
      <4>3. Called(F(v, p), F(v, p + 1))
        BY <4>1 DEF RanInv
      <4>4. PICK g, f, k : g = F(v, p) /\ f = F(v, p + 1) /\ k = F(v, p + 1)'
        OBVIOUS
      <4>5. k.op = f.op /\ k.lo = f.lo /\ k.hi = f.hi
        BY <1>3, <4>1, <4>4
      <4>6. Called(g, k)
        BY <4>3, <4>4, <4>5 DEF Called
      <4>7. Called(g, k)'
        BY <2>1, <4>6, RanGrows
      <4>. QED
        BY <4>2, <4>4, <4>7
    <3>3. Behind(F(v, Height(v)))'
      <4>1. Height(v) \in 1 .. Height(v)
        BY <1>2
      <4>2. Behind(F(v, Height(v)))
        BY DEF RanInv
      <4>3. PICK g : g = F(v, Height(v))'
        OBVIOUS
      <4>4. Behind(g)
        <5>1. CASE g = F(v, Height(v))
          BY <4>2, <5>1
        <5>2. CASE g # F(v, Height(v))
          <6>1. Moves(v, F(v, Height(v)), g)
            <7>1. PICK h : h = Height(v)
              OBVIOUS
            <7>2. g = F(v, h)' /\ h \in 1 .. Height(v)
              BY <1>2, <4>1, <4>3, <7>1
            <7>. QED
              BY <5>2, <7>1, <7>2, MoveFrames
          <6>. QED
            BY <5>2, <6>1 DEF Moves
        <5>. QED
          BY <5>1, <5>2
      <4>5. Behind(g)'
        BY <2>1, <4>4, RanGrows
      <4>. QED
        BY <4>3, <4>5
    <3>. QED
      BY <3>1, <3>2, <3>3
  <2>3. finishedFlag' => Ran(Start, End)' /\ F(Main, 1)'.at \in Final
    <3>1. Main \in Worker
      BY SchedulerAssumption
    <3>2. 1 \in 1 .. Height(Main)
      BY <1>2, <3>1
    <3>. QED
      BY <1>3, <1>5, <3>1, <3>2, PrimedFrames DEF RanInv
  <2>4. done' = done
    BY DEF KeepData
  <2>5. stack' \in [Worker -> Seq(FrameType)]
    BY DEF OnlyMoves
  <2>6. \A v \in Worker : \E m :
            /\ Kept(v, m)
            /\ \A p \in 1 .. Height(v)' - 1 : p >= m => Called(F(v, p), F(v, p + 1))'
            /\ Behind(F(v, Height(v)))'
    BY <2>2
  <2>. QED
    BY <2>1, <2>3, <2>4, <2>5, <2>6, RanKept
<1>. QED
  BY <1>1, <1>4, <1>6

\* The slots of v stay matched: if it has any, its innermost call has not moved.
LEMMA MoveMatch ==
  ASSUME DataInv, StackInv, StackInv', MatchInv, DequeTypes, OnlyMoves, SameSlots,
         NEW v \in Worker,
         Avail(v) = {} \/ (reg'[v].at = "returned" <=> reg[v].at = "returned")
                       \/ F(v, Height(v)).op # "do" \/ F(v, Height(v)).at # "own"
  PROVE  \E pos \in [Avail(v)' -> 1 .. Height(v)'] : Matches(v, pos)'
<1>1. PICK pos \in [Avail(v) -> 1 .. Height(v)] : Matches(v, pos)
  BY DEF MatchInv
<1>2. /\ Avail(v)' = Avail(v) /\ Height(v)' = Height(v) /\ Height(v) \in Nat \ {0}
      /\ Height(v) \in 1 .. Height(v) /\ deq'[v] = deq[v]
      /\ Len(stack'[v]) = Height(v)
  BY FrameTypes, PrimedFrames DEF OnlyMoves, SameSlots
<1>3. CASE Avail(v) = {}
  <2>1. Matches(v, pos)'
    BY <1>2, <1>3 DEF Matches
  <2>. QED
    BY <1>2, <2>1
<1>4. CASE Avail(v) # {}
  <2>1. PICK h : h = Height(v)
    OBVIOUS
  <2>2. PICK f, g : f = F(v, h) /\ g = F(v, h)'
    OBVIOUS
  <2>3. /\ g = f \/ Moves(v, f, g)
        /\ StackInv => FrameOK(f) /\ (f.op = "main" => h = 1)
    <3>1. h \in 1 .. Height(v)
      BY <1>2, <2>1
    <3>. QED
      BY <2>2, <3>1, MoveFrames DEF StackInv
  <2>4. f = g
    <3>1. f # g => Seeker(f) \/ f.op = "main"
      BY <1>4, <2>3 DEF Moves, FrameOK, Pardos, Seeker, Seeking
    <3>2. (Seeker(f) \/ h = 1) /\ ~ Pending(v, h) => Avail(v) = {}
      BY <2>1, <2>2, SeekerEmpty
    <3>3. Pending(v, h) => f.op = "do" /\ f.at \in {"spawn", "own"}
      BY <2>2 DEF Pending
    <3>. QED
      BY <1>4, <2>3, <3>1, <3>2, <3>3 DEF Seeker, Seeking
  <2>5. ASSUME NEW p \in 1 .. h
        PROVE  After(v, p) = F(v, p) /\ (Pending(v, p)' <=> Pending(v, p))
    <3>1. After(v, p) = F(v, p) /\ F(v, p)' = F(v, p)
      BY <1>2, <2>1, <2>2, <2>4, MoveFrames
    <3>2. CASE p # h
      BY <1>2, <2>1, <3>1, <3>2 DEF Pending
    <3>3. CASE p = h
      BY <1>2, <1>4, <2>1, <3>1, <3>3 DEF Pending
    <3>. QED
      BY <3>2, <3>3
  <2>6. Kept(v, h)
    BY <1>2, <2>1, <2>5 DEF Kept
  <2>7. /\ \A p \in 1 .. Height(v) : ~ (p > h)
        /\ \A p \in 1 .. Height(v)' : ~ (p > h)
    BY <1>2, <2>1
  <2>8. stack' \in [Worker -> Seq(FrameType)]
    BY DEF OnlyMoves
  <2>. QED
    BY <1>1, <1>2, <2>5, <2>6, <2>7, <2>8, MatchKept
<1>. QED
  BY <1>3, <1>4

\* Nobody's iterations or jobs change, and every waiting pardo whose job is
\* somewhere goes on waiting.
LEMMA MovePlaces ==
  ASSUME DataInv, StackInv, OnlyMoves, KeepData, SameSlots, SameHeld, ShareInv, JobInv
  PROVE  ShareInv' /\ JobInv'
<1>0. stack' \in [Worker -> Seq(FrameType)]
  BY DEF OnlyMoves
<1>1. ASSUME NEW v \in Worker, NEW p \in Nat
      PROVE  /\ FrameShare(v, p)' = FrameShare(v, p) /\ FrameJob(v, p)' = FrameJob(v, p)
             /\ Waiting(v, p) => Waiting(v, p)' \/ RightJob(F(v, p)) \in done
             /\ Waiting(v, p) => RightJob(F(v, p)') = RightJob(F(v, p))
  <2>1. Height(v) \in Nat \ {0} /\ Len(stack'[v]) = Height(v) /\ Height(v)' = Height(v)
    BY FrameTypes, PrimedFrames DEF OnlyMoves
  <2>2. CASE p \notin 1 .. Height(v)
    BY <1>0, <2>1, <2>2, PlacesKept DEF FrameShare, FrameJob, Waiting
  <2>3. CASE p \in 1 .. Height(v)
    <3>1. PICK f, g : f = F(v, p) /\ g = F(v, p)' /\ g = After(v, p)
      BY PrimedFrames
    <3>2. /\ g.op = f.op /\ g.lo = f.lo /\ g.hi = f.hi
          /\ RightJob(g) = RightJob(f)
          /\ f # g => Moves(v, f, g)
      BY <2>3, <3>1, MoveFrames
    <3>3. FrameSpan(g) = FrameSpan(f)
      <4>1. f # g => FrameSpan(f) = {} /\ FrameSpan(g) = {}
        BY <3>2 DEF Moves, FrameSpan
      <4>. QED
        BY <4>1
    <3>4. f.op = "do" /\ f.at # "joined" => g.at # "joined" \/ RightJob(f) \in done
      BY <3>2 DEF Moves
    <3>. QED
      BY <1>0, <2>1, <2>3, <3>1, <3>2, <3>3, <3>4, PlacesKept DEF FrameShare, FrameJob, Waiting
  <2>. QED
    BY <2>2, <2>3
<1>2. ASSUME NEW x \in Name
      PROVE  JobOf(x)' = JobOf(x) /\ Share(x)' = Share(x)
  <2>1. PICK v \in Worker, p \in Nat :
           x = <<"frame", v, p>> \/ x = <<"slot", v, p>> \/ x = <<"held", v, 0>>
    BY Names
  <2>2. /\ FrameShare(v, p)' = FrameShare(v, p) /\ FrameJob(v, p)' = FrameJob(v, p)
        /\ SlotJob(v, p)' = SlotJob(v, p) /\ HeldJob(v)' = HeldJob(v)
    BY <1>0, <1>1, PlacesKept DEF SameHeld
  <2>. QED
    BY <2>1, <2>2, Names
<1>3. PICK b : b = <<"held", Main, 0>>
  OBVIOUS
<1>4. b \in Name
  BY <1>3, Names, SchedulerAssumption
<1>5. ShareInv'
  <2>1. PICK I : I = {}
    OBVIOUS
  <2>2. hits' = [i \in DOMAIN hits |-> hits[i] + IF i \in I THEN 1 ELSE 0]
    BY <2>1 DEF KeepData, DataInv
  <2>3. /\ \A x \in Name \ {b} : Share(x)' \subseteq Share(x)
        /\ Share(b)' \subseteq Share(b) \cup Share(b)
        /\ I \subseteq Share(b) /\ Share(b)' \cap I = {}
    BY <1>2, <1>4, <2>1
  <2>. QED
    BY <1>4, <2>2, <2>3, ShareStep
<1>6. JobInv'
  <2>1. \A x \in Name \ {b} : JobOf(x)' = JobOf(b)' => JobOf(b)' = NoJob
    BY <1>2, <1>4 DEF JobInv
  <2>2. done' = done
    BY DEF KeepData
  <2>3. \A v \in Worker, p \in Nat : Waiting(v, p) =>
            \/ Waiting(v, p)' /\ RightJob(F(v, p)') = RightJob(F(v, p))
            \/ \A x \in Name : JobOf(x)' # RightJob(F(v, p))
    <3>1. ASSUME NEW v \in Worker, NEW p \in Nat, Waiting(v, p), RightJob(F(v, p)) \in done,
                 NEW x \in Name
          PROVE  JobOf(x)' # RightJob(F(v, p))
      <4>1. RightJob(F(v, p)) # NoJob
        BY <3>1, DequesAssumption DEF DataInv, D!DequeAssumption
      <4>. QED
        BY <1>2, <3>1, <4>1 DEF JobInv
    <3>. QED
      BY <1>1, <3>1
  <2>. QED
    BY <1>2, <1>4, <2>1, <2>2, <2>3, JobStep
<1>. QED
  BY <1>5, <1>6

\* The innermost call after a step, by its place.
LEMMA TopAfter ==
  ASSUME stack' \in [Worker -> Seq(FrameType)], NEW v \in Worker, Len(stack'[v]) >= 1
  PROVE  Top(v)' = After(v, Len(stack'[v])) /\ Top(v)' = F(v, Height(v))'
<1>1. stack'[v] \in Seq(FrameType) /\ stack'[v] # <<>>
  OBVIOUS
<1>2. PICK s : s = stack'[v]
  OBVIOUS
<1>3. s \in Seq(FrameType) /\ s # <<>> /\ Len(s) \in Nat
  BY <1>1, <1>2
<1>4. Head(s) = s[Len(s) + 1 - Len(s)]
  BY <1>3
<1>5. Top(v)' = After(v, Len(stack'[v]))
  BY <1>2, <1>4 DEF Top, After
<1>6. F(v, Height(v))' = After(v, Len(stack'[v]))
  BY DEF F, After, Height
<1>. QED
  BY <1>5, <1>6

\* A step in which innermost calls only move on, and no job changes hands, preserves
\* the invariant.
LEMMA MoveStep ==
  ASSUME SchedulerInv, OnlyMoves, KeepData, finishedFlag' \in BOOLEAN,
         finishedFlag' => finishedFlag \/ (Ran(Start, End) /\ After(Main, 1).at \in Final),
         DequeInv', SameSlots, SameHeld,
         \A v \in Worker : RegSuits(v)',
         \A v \in Worker : \/ Avail(v) = {}
                           \/ reg'[v].at = "returned" <=> reg[v].at = "returned"
                           \/ Top(v).op # "do" \/ Top(v).at # "own",
         \A v \in Worker : OwnAnswered(v)' => \/ reg'[v].job = NoJob /\ Avail(v) = {}
                                              \/ OwnAnswered(v) /\ reg'[v] = reg[v]
  PROVE  SchedulerInv'
<1>1. DataInv' /\ StackInv' /\ RanInv'
  BY MoveStacks DEF SchedulerInv
<1>2. RegInv'
  BY DEF RegInv
<1>3. MatchInv'
  <2>1. ASSUME NEW v \in Worker
        PROVE  \E pos \in [Avail(v)' -> 1 .. Height(v)'] : Matches(v, pos)'
    <3>1. Top(v) = F(v, Height(v))
      BY FrameTypes DEF SchedulerInv
    <3>. QED
      BY <1>1, <3>1, MoveMatch DEF SchedulerInv, DequeInv
  <2>. QED
    BY <2>1 DEF MatchInv
<1>4. OwnInv'
  <2> SUFFICES ASSUME NEW v \in Worker, OwnAnswered(v)'
               PROVE  reg'[v].job = RightJob(Top(v)') \/ (reg'[v].job = NoJob /\ Avail(v)' = {})
    <3>1. \A f : RightJob(f)' = RightJob(f)
      BY DEF RightJob, Mid
    <3>. QED
      BY <3>1 DEF OwnInv, OwnAnswered
  <2>1. CASE OwnAnswered(v) /\ reg'[v] = reg[v]
    <3>1. PICK f, g, h : f = Top(v) /\ g = Top(v)' /\ h = Height(v)
      OBVIOUS
    <3>2. f = F(v, h) /\ g = F(v, h)' /\ h \in 1 .. Height(v)
      <4>1. f = F(v, h) /\ h \in Nat \ {0}
        BY <3>1, FrameTypes DEF SchedulerInv
      <4>2. Len(stack'[v]) = h
        BY <3>1 DEF OnlyMoves
      <4>3. g = After(v, h)
        BY <3>1, <4>1, <4>2, TopAfter DEF OnlyMoves
      <4>. QED
        BY <3>1, <4>1, <4>3, PrimedFrames
    <3>3. f # g => Moves(v, f, g)
      BY <3>2, MoveFrames DEF SchedulerInv
    <3>4. f.op = "do" /\ f.at = "own" /\ g.at = "own"
      BY <2>1, <3>1 DEF OwnAnswered, Answered
    <3>5. f = g
      BY <3>3, <3>4 DEF Moves
    <3>6. reg[v].job = RightJob(f) \/ (reg[v].job = NoJob /\ Avail(v) = {})
      BY <2>1, <3>1 DEF SchedulerInv, OwnInv, OwnAnswered
    <3>. QED
      BY <2>1, <3>1, <3>5, <3>6 DEF SameSlots
  <2>2. CASE reg'[v].job = NoJob /\ Avail(v) = {}
    BY <2>2 DEF SameSlots
  <2>. QED
    BY <2>1, <2>2
<1>5. ShareInv' /\ JobInv'
  BY MovePlaces DEF SchedulerInv
<1>. QED
  BY <1>1, <1>2, <1>3, <1>4, <1>5 DEF SchedulerInv

\* How the innermost calls come to move.
LEMMA AtMoves ==
  ASSUME DataInv, StackInv, DOMAIN stack' = Worker, stack' = [v \in Worker |-> stack'[v]],
         \A v \in Worker : \/ stack'[v] = stack[v]
                           \/ \E at \in Ats : /\ stack'[v] = At(v, at)
                                                 /\ Moves(v, Top(v), [Top(v) EXCEPT !.at = at])
  PROVE  OnlyMoves /\ \A v \in Worker : stack'[v] = stack[v] =>
                        After(v, Height(v)) = F(v, Height(v)) /\ Top(v)' = Top(v)
<1>1. ASSUME NEW v \in Worker
      PROVE  /\ stack'[v] \in Seq(FrameType)
             /\ Len(stack'[v]) = Height(v) /\ Kept(v, Height(v) - 1)
             /\ Moves(v, F(v, Height(v)), After(v, Height(v)))
  <2>1. /\ Height(v) \in Nat \ {0} /\ stack[v] \in Seq(FrameType) /\ stack[v] # <<>>
        /\ Top(v) = F(v, Height(v)) /\ Height(v) = Len(stack[v])
        /\ Height(v) \in 1 .. Height(v)
    BY FrameTypes DEF Height
  <2>2. CASE stack'[v] = stack[v]
    BY <2>1, <2>2 DEF Kept, After, F, Moves
  <2>3. ASSUME NEW at \in Ats, stack'[v] = At(v, at),
               Moves(v, Top(v), [Top(v) EXCEPT !.at = at])
        PROVE  /\ stack'[v] \in Seq(FrameType)
               /\ Len(stack'[v]) = Height(v) /\ Kept(v, Height(v) - 1)
               /\ Moves(v, F(v, Height(v)), After(v, Height(v)))
    <3>1. PICK s, f, h : s = stack[v] /\ f = [Top(v) EXCEPT !.at = at] /\ h = Height(v)
      OBVIOUS
    <3>2. Top(v) \in FrameType
      BY <2>1, FrameTypes
    <3>3. f \in FrameType
      BY <3>1, <3>2 DEF FrameType
    <3>4. stack'[v] = One(s, f)
      BY <2>3, <3>1 DEF At, One, Under
    <3>5. s \in Seq(FrameType) /\ s # <<>> /\ Len(s) = h /\ h \in Nat \ {0}
      BY <2>1, <3>1
    <3>6. /\ stack'[v] \in Seq(FrameType) /\ Len(stack'[v]) = h
          /\ FromBottom(stack'[v], h) = f
          /\ \A p \in 1 .. h - 1 : FromBottom(stack'[v], p) = FromBottom(s, p)
      BY <3>3, <3>4, <3>5, OneMove
    <3>7. After(v, h) = f /\ \A p \in 1 .. h - 1 : After(v, p) = F(v, p)
      BY <3>1, <3>6 DEF After, F, FromBottom
    <3>8. Kept(v, h - 1)
      BY <3>1, <3>5, <3>6, <3>7 DEF Kept
    <3>9. f = [Top(v) EXCEPT !.at = at]
      BY <3>1
    <3>. QED
      BY <2>1, <2>3, <3>1, <3>6, <3>7, <3>8, <3>9
  <2>. QED
    BY <2>2, <2>3
<1>2. stack' \in [Worker -> Seq(FrameType)]
  BY <1>1
<1>. QED
  BY <1>1, <1>2 DEF OnlyMoves, After, F, Height, Top

\* The same for a step of one worker.
LEMMA OneMoves ==
  ASSUME SchedulerInv, NEW w \in Worker, KeepRest, DequeInv', SameSlots, SameHeld,
         \A u \in Worker \ {w} : reg'[u] = reg[u],
         \/ UNCHANGED stack
         \/ \E at \in Ats : Become(w, At(w, at)) /\ Moves(w, Top(w), [Top(w) EXCEPT !.at = at]),
         RegSuits(w)',
         \/ Avail(w) = {}
         \/ reg'[w].at = "returned" <=> reg[w].at = "returned"
         \/ Top(w).op # "do" \/ Top(w).at # "own",
         OwnAnswered(w)' => \/ reg'[w].job = NoJob /\ Avail(w) = {}
                            \/ OwnAnswered(w) /\ reg'[w] = reg[w]
  PROVE  SchedulerInv'
<1>1. DataInv /\ StackInv /\ stack \in [Worker -> Seq(FrameType)]
  BY DEF SchedulerInv, DataInv
<1>2. /\ DOMAIN stack' = Worker /\ stack' = [v \in Worker |-> stack'[v]]
      /\ \A v \in Worker : \/ stack'[v] = stack[v]
                           \/ \E at \in Ats : /\ stack'[v] = At(v, at)
                                                 /\ Moves(v, Top(v), [Top(v) EXCEPT !.at = at])
      /\ \A v \in Worker \ {w} : stack'[v] = stack[v]
  BY <1>1 DEF Become
<1>3. OnlyMoves /\ \A v \in Worker \ {w} : Top(v)' = Top(v)
  BY <1>1, <1>2, AtMoves
<1>4. KeepData /\ finishedFlag' = finishedFlag /\ finishedFlag \in BOOLEAN
  BY <1>1 DEF KeepRest, KeepData, DataInv
<1>5. \A v \in Worker : RegSuits(v)'
  BY <1>3 DEF RegSuits, SchedulerInv, RegInv
<1>6. \A v \in Worker : OwnAnswered(v)' => \/ reg'[v].job = NoJob /\ Avail(v) = {}
                                           \/ OwnAnswered(v) /\ reg'[v] = reg[v]
  <2>1. \A v \in Worker \ {w} : OwnAnswered(v)' => OwnAnswered(v) /\ reg'[v] = reg[v]
    BY <1>3 DEF OwnAnswered, Answered
  <2>. QED
    BY <2>1
<1>7. \A v \in Worker : \/ Avail(v) = {}
                        \/ reg'[v].at = "returned" <=> reg[v].at = "returned"
                        \/ Top(v).op # "do" \/ Top(v).at # "own"
  OBVIOUS
<1>. QED
  BY <1>3, <1>4, <1>5, <1>6, <1>7, MoveStep

\* Moving on is allowed within a worker's loop, in main, and in a pardo that seeks work.
LEMMA MovesOn ==
  ASSUME NEW v \in Worker, NEW f, FrameOK(f), Behind(f), NEW at \in Ats,
         \/ f.op = "worker" /\ at \in WorkerPlaces
         \/ f.op = "main" /\ f.at # "call" /\ at \in Final
         \/ /\ f.op = "do" /\ f.at \notin {"spawn", "joined"} /\ at \in Seeking \cup {"joined"}
            /\ f.at = "own" => Avail(v) = {}
            /\ at = "joined" => RightJob(f) \in done /\ Ran(Mid(f), f.hi)
  PROVE  Moves(v, f, [f EXCEPT !.at = at])
<1>1. PICK g : g = [f EXCEPT !.at = at]
  OBVIOUS
<1>2. f \in FrameType
  BY DEF FrameOK
<1>3. g \in FrameType /\ g.op = f.op /\ g.lo = f.lo /\ g.hi = f.hi /\ g.at = at
  BY <1>1, <1>2 DEF FrameType
<1>4. Mid(g) = Mid(f)
  BY <1>3 DEF Mid
<1>5. CASE f.op = "worker" /\ at \in WorkerPlaces
  <2>1. FrameOK(g)
    BY <1>3, <1>5 DEF FrameOK
  <2>2. f.at \in WorkerPlaces
    BY <1>5 DEF FrameOK
  <2>3. f.at \notin Final /\ f.at # "own"
    BY <2>2 DEF WorkerPlaces, Asleep, Seeking, Final
  <2>. QED
    BY <1>1, <1>3, <1>5, <2>1, <2>3 DEF Moves, Behind
<1>6. CASE f.op = "main" /\ f.at # "call" /\ at \in Final
  <2>1. FrameOK(g)
    BY <1>3, <1>6 DEF FrameOK, MainPlaces
  <2>2. f.at \in MainPlaces
    BY <1>6 DEF FrameOK
  <2>3. f.at # "own" /\ g.at # "call"
    BY <1>3, <1>6, <2>2 DEF MainPlaces, Final
  <2>4. Behind(g)
    BY <1>3, <1>6 DEF Behind
  <2>. QED
    BY <1>1, <1>3, <1>6, <2>1, <2>3, <2>4 DEF Moves
<1>7. CASE /\ f.op = "do" /\ f.at \notin {"spawn", "joined"} /\ at \in Seeking \cup {"joined"}
           /\ f.at = "own" => Avail(v) = {}
           /\ at = "joined" => RightJob(f) \in done /\ Ran(Mid(f), f.hi)
  <2>1. at \in Pardos /\ at \notin {"spawn", "own"}
    BY <1>7 DEF Pardos, Seeking
  <2>2. FrameOK(g)
    BY <1>3, <1>4, <1>7, <2>1 DEF FrameOK
  <2>3. f.at \notin Final
    BY <1>7 DEF FrameOK, Pardos, Final
  <2>4. Ran(f.lo, Mid(f))
    BY <1>7 DEF Behind
  <2>5. at = "joined" => Ran(f.lo, f.hi)
    <3>1. f.lo \in Nat /\ f.hi \in Nat /\ f.lo < Mid(f) /\ Mid(f) < f.hi
      BY <1>2, <1>7 DEF FrameOK, FrameType
    <3>2. Mid(f) \in Nat
      <4>1. \A n \in Nat : n \div 16 \in Nat
        OBVIOUS
      <4>2. 9 * (f.hi - f.lo + 1) \in Nat
        BY <3>1 DEF Mid
      <4>. QED
        BY <3>1, <4>1, <4>2 DEF Mid
    <3>. QED
      BY <1>7, <2>4, <3>1, <3>2, SchedulerAssumption DEF Ran
  <2>6. Behind(g)
    BY <1>3, <1>4, <1>7, <2>4, <2>5 DEF Behind
  <2>. QED
    BY <1>1, <1>3, <1>7, <2>1, <2>2, <2>3, <2>6 DEF Moves
<1>. QED
  BY <1>5, <1>6, <1>7

-----------------------------------------------------------------------------
(* The actions, one by one.                                                *)

\* What the invariant says of a worker's innermost call and register.
LEMMA Facts ==
  ASSUME SchedulerInv, NEW w \in Worker
  PROVE  /\ Top(w) = F(w, Height(w)) /\ Height(w) \in Nat \ {0} /\ Height(w) \in 1 .. Height(w)
         /\ FrameOK(Top(w)) /\ Behind(Top(w)) /\ Top(w) \in FrameType
         /\ Top(w).op = "main" => w = Main /\ Height(w) = 1
         /\ Top(w).op \in {"for", "do"} => granularity >= 1
         /\ DOMAIN reg = Worker /\ RegSuits(w) /\ RegOK(w)
         /\ Top(w).op = "do" => RightJob(Top(w)) \in Ranges /\ RightJob(Top(w)) # NoJob
<1>1. Top(w) = F(w, Height(w)) /\ Height(w) \in Nat \ {0} /\ Height(w) \in 1 .. Height(w)
  BY FrameTypes DEF SchedulerInv
<1>2. /\ FrameOK(Top(w)) /\ Behind(Top(w))
      /\ Top(w).op = "main" => w = Main /\ Height(w) = 1
      /\ Top(w).op \in {"for", "do"} => granularity >= 1
  BY <1>1 DEF SchedulerInv, StackInv, RanInv
<1>3. DOMAIN reg = Worker /\ RegSuits(w) /\ RegOK(w)
  BY DEF SchedulerInv, DequeInv, DequeTypes, RegInv
<1>4. PICK f : f = Top(w)
  OBVIOUS
<1>5. f \in FrameType
  BY <1>2, <1>4 DEF FrameOK
<1>6. f.op = "do" => RightJob(f) \in Ranges
  <2>1. f.op = "do" => /\ f.lo \in Nat /\ f.hi \in Nat /\ Start <= f.lo /\ f.lo < Mid(f)
                       /\ Mid(f) < f.hi /\ f.hi <= End
    BY <1>2, <1>4, <1>5 DEF FrameOK, FrameType
  <2>2. f.op = "do" => Mid(f) \in Nat
    <3>1. \A n \in Nat : n \div 16 \in Nat
      OBVIOUS
    <3>2. f.op = "do" => 9 * (f.hi - f.lo + 1) \in Nat
      BY <2>1 DEF Mid
    <3>. QED
      BY <2>1, <3>1, <3>2 DEF Mid
  <2>3. f.op = "do" => Mid(f) \in Start .. End /\ f.hi \in Start .. End /\ Mid(f) < f.hi
    BY <2>1, <2>2, SchedulerAssumption
  <2>. QED
    BY <2>3 DEF RightJob, Ranges
<1>. QED
  BY <1>1, <1>2, <1>3, <1>4, <1>5, <1>6, DequesAssumption DEF D!DequeAssumption

\* What consuming an answer, or keeping the registers, leaves of the deques.
LEMMA Registers ==
  ASSUME DequeInv, NEW w \in Worker, bot' = bot, age' = age, deq' = deq
  PROVE  /\ Consume(w) /\ reg[w].at = "returned" =>
              /\ DequeInv' /\ SameSlots /\ reg'[w] = D!Idle /\ reg'[w].at = "idle"
              /\ \A u \in Worker \ {w} : reg'[u] = reg[u] /\ HeldJob(u)' = HeldJob(u)
              /\ HeldJob(w)' = NoJob /\ HeldJob(w) = reg[w].job
         /\ reg' = reg => DequeInv' /\ SameSlots /\ SameHeld
         /\ \A x \in Holding :
              reg[w].at \in Holding /\ reg' = [reg EXCEPT ![w].at = x] =>
              /\ DequeInv' /\ SameSlots /\ SameHeld
              /\ \A u \in Worker \ {w} : reg'[u] = reg[u]
              /\ reg'[w].at = x /\ reg'[w].job = reg[w].job
<1>0. DOMAIN reg = Worker /\ RegOK(w) /\ OwnerInv(w)
  BY DEF DequeInv, DequeTypes
<1>1. ASSUME Consume(w), reg[w].at = "returned"
      PROVE  /\ DequeInv' /\ SameSlots /\ reg'[w] = D!Idle /\ reg'[w].at = "idle"
             /\ \A u \in Worker \ {w} : reg'[u] = reg[u] /\ HeldJob(u)' = HeldJob(u)
             /\ HeldJob(w)' = NoJob /\ HeldJob(w) = reg[w].job
  <2>1. PICK r : r = D!Idle
    OBVIOUS
  <2>2. reg' = [reg EXCEPT ![w] = r] /\ reg'[w] = r /\ r = [at |-> "idle"] /\ r.at = "idle"
    BY <1>0, <1>1, <2>1 DEF Consume, D!Idle
  <2>3. Avail(w)' = Avail(w)
    BY <1>1, <2>2 DEF Avail
  <2>4. RegOK(w)'
    BY <2>2 DEF RegOK
  <2>5. OwnerInv(w)'
    BY <1>0, <1>1, <2>2 DEF OwnerInv, Lowering
  <2>6. ThiefInv(w)'
    BY <2>2 DEF ThiefInv, Reading
  <2>7. DequeInv' /\ SameSlots /\ \A v \in Worker \ {w} : HeldJob(v)' = HeldJob(v)
    BY <2>2, <2>3, <2>4, <2>5, <2>6, RegistersOnly
  <2>8. HeldJob(w)' = NoJob /\ HeldJob(w) = reg[w].job
    BY <1>1, <2>2 DEF HeldJob, Holding
  <2>. QED
    BY <1>0, <2>1, <2>2, <2>7, <2>8
<1>2. ASSUME reg' = reg PROVE DequeInv' /\ SameSlots /\ SameHeld
  <2>1. \A v \in Worker : Avail(v)' = Avail(v) /\ HeldJob(v)' = HeldJob(v)
                          /\ OwnerInv(v)' /\ RegOK(v)'
    BY <1>2, AvailSame DEF DequeInv
  <2>2. DequeTypes'
    BY <1>2 DEF DequeInv, DequeTypes
  <2>3. \A v \in Worker : Newer(age[v], age'[v])
    BY DEF Newer
  <2>4. \A v \in Worker : ThiefInv(v)'
    BY <1>2, <2>1, <2>2, <2>3, ThiefKept DEF DequeInv
  <2>. QED
    BY <2>1, <2>2, <2>4 DEF DequeInv, SameSlots, SameHeld
<1>3. ASSUME NEW x \in Holding, reg[w].at \in Holding, reg' = [reg EXCEPT ![w].at = x]
      PROVE  /\ DequeInv' /\ SameSlots /\ SameHeld
             /\ \A u \in Worker \ {w} : reg'[u] = reg[u]
             /\ reg'[w].at = x /\ reg'[w].job = reg[w].job
  <2>1. PICK j : j = reg[w].job
    OBVIOUS
  <2>2. reg[w] = [at |-> reg[w].at, job |-> j] /\ j \in Ranges \cup {NoJob}
    BY <1>0, <1>3, <2>1 DEF RegOK, Holding
  <2>3. PICK r : r = [at |-> x, job |-> j]
    OBVIOUS
  <2>4. r = [reg[w] EXCEPT !.at = x]
    BY <2>2, <2>3
  <2>5. /\ reg' = [reg EXCEPT ![w] = r] /\ reg'[w] = r /\ r.at = x /\ r.job = j
        /\ \A u \in Worker \ {w} : reg'[u] = reg[u]
    <3>1. reg' = [reg EXCEPT ![w] = [reg[w] EXCEPT !.at = x]]
      BY <1>3
    <3>2. reg' = [reg EXCEPT ![w] = r]
      BY <2>4, <3>1
    <3>. QED
      BY <1>0, <2>3, <3>2
  <2>6. Avail(w)' = Avail(w)
    BY <1>3, <2>5 DEF Avail, Holding
  <2>7. RegOK(w)'
    BY <2>2, <2>3, <2>5 DEF RegOK
  <2>8. OwnerInv(w)'
    BY <1>0, <1>3, <2>5 DEF OwnerInv, Lowering, Holding
  <2>9. ThiefInv(w)'
    BY <2>5 DEF ThiefInv, Reading, Holding
  <2>10. DequeInv' /\ SameSlots /\ \A v \in Worker \ {w} : HeldJob(v)' = HeldJob(v)
    BY <2>5, <2>6, <2>7, <2>8, <2>9, RegistersOnly
  <2>11. HeldJob(w)' = HeldJob(w)
    BY <1>3, <2>1, <2>5 DEF HeldJob
  <2>. QED
    BY <2>1, <2>5, <2>10, <2>11 DEF SameHeld
<1>. QED
  BY <1>1, <1>2, <1>3

\* The owner's and the thieves' steps inside a deque operation that take no job.
LEMMA DequeMoves ==
  ASSUME SchedulerInv, NEW w \in Worker, UNCHANGED control, DequeInv', SameSlots, SameHeld,
         \A u \in Worker \ {w} : reg'[u] = reg[u],
         \/ reg[w].at = "pushed" /\ reg'[w].at \in Holding /\ reg'[w].job = NoJob
         \/ reg[w].at \in Reading /\ reg'[w].at \in Reading \cup Holding
         \/ reg[w].at \in Lowering /\ reg'[w].at \in Lowering
         \/ /\ reg[w].at \in Lowering /\ Avail(w) = {}
            /\ reg'[w].at = "returned" /\ reg'[w].job = NoJob
  PROVE  SchedulerInv'
<1>1. RegSuits(w)
  BY Facts
<1>2. stack' = stack /\ Top(w)' = Top(w) /\ KeepRest
  BY DEF control, Top, KeepRest
<1>3. PICK f, a, b, j : f = Top(w) /\ a = reg[w].at /\ b = reg'[w].at /\ j = reg'[w].job
  OBVIOUS
<1>4. \/ f.op = "do" /\ f.at = "spawn" /\ b \in Holding /\ j = NoJob
      \/ f.op \in {"do", "worker"} /\ f.at = "stole" /\ b \in Reading \cup Holding
      \/ /\ \/ f.op = "do" /\ f.at = "own" 
            \/ f.op \in {"do", "worker"} /\ f.at = "popped"
         /\ a # "returned"
         /\ b \in Lowering \/ (b = "returned" /\ j = NoJob /\ Avail(w) = {})
  BY <1>1, <1>3 DEF RegSuits, Reading, Holding, Lowering
<1>5. RegSuits(w)'
  BY <1>2, <1>3, <1>4 DEF RegSuits, Lowering, Holding, Reading
<1>6. \/ Avail(w) = {}
      \/ b = "returned" <=> a = "returned"
      \/ f.op # "do" \/ f.at # "own"
  BY <1>4 DEF Lowering
<1>7. OwnAnswered(w)' => j = NoJob /\ Avail(w) = {}
  BY <1>2, <1>3, <1>4 DEF OwnAnswered, Answered, Lowering
<1>. QED
  BY <1>2, <1>3, <1>5, <1>6, <1>7, OneMoves

\* push_bottom makes the job visible.
LEMMA PushPublishKeeps ==
  ASSUME SchedulerInv, NEW w \in Worker, D!PushPublish(w), UNCHANGED control
  PROVE  SchedulerInv'
<1>1. DequeInv' /\ SameSlots /\ SameHeld
  BY PushPublishStep DEF SchedulerInv
<1>2. DOMAIN reg = Worker
  BY Facts
<1>3. /\ reg[w].at = "pushed" /\ reg'[w].at \in Holding /\ reg'[w].job = NoJob
      /\ \A u \in Worker \ {w} : reg'[u] = reg[u]
  BY <1>2 DEF D!PushPublish, D!Goto, Holding
<1>. QED
  BY <1>1, <1>3, DequeMoves

\* pop_top reads bot, and then the slot.
LEMMA TopReadsKeep ==
  ASSUME SchedulerInv, NEW w \in Worker, D!TopReadBot(w) \/ D!TopReadSlot(w), UNCHANGED control
  PROVE  SchedulerInv'
<1>1. DequeInv' /\ SameSlots /\ SameHeld
  BY TopReadBotStep, TopReadSlotStep DEF SchedulerInv
<1>2. DOMAIN reg = Worker
  BY Facts
<1>3. /\ reg[w].at \in Reading /\ reg'[w].at \in Reading \cup Holding
      /\ \A u \in Worker \ {w} : reg'[u] = reg[u]
  BY <1>2 DEF D!TopReadBot, D!TopReadSlot, D!Goto, D!Returned, Holding, Reading
<1>. QED
  BY <1>1, <1>3, DequeMoves

\* pop_bottom resets bot, or gives up on an empty deque.
LEMMA BottomsKeep ==
  ASSUME SchedulerInv, NEW w \in Worker, D!BottomReset(w) \/ D!BottomGiveUp(w), UNCHANGED control
  PROVE  SchedulerInv'
<1>1. CASE D!BottomReset(w)
  <2>1. /\ DequeInv' /\ SameSlots /\ SameHeld /\ reg'[w].at = "bottom3"
        /\ \A u \in Worker \ {w} : reg'[u] = reg[u]
    BY <1>1, BottomResetStep DEF SchedulerInv
  <2>2. reg[w].at \in Lowering /\ reg'[w].at \in Lowering
    BY <1>1, <2>1 DEF D!BottomReset, Lowering
  <2>. QED
    BY <2>1, <2>2, DequeMoves
<1>2. CASE D!BottomGiveUp(w)
  <2>1. /\ DequeInv' /\ SameSlots /\ SameHeld
        /\ reg'[w] = D!Returned(NoJob) /\ Avail(w) = {}
        /\ \A u \in Worker \ {w} : reg'[u] = reg[u]
    BY <1>2, BottomGiveUpStep DEF SchedulerInv
  <2>2. reg[w].at \in Lowering /\ reg'[w].at = "returned" /\ reg'[w].job = NoJob
    BY <1>2, <2>1 DEF D!BottomGiveUp, D!Returned, Lowering
  <2>. QED
    BY <2>1, <2>2, DequeMoves
<1>. QED
  BY <1>1, <1>2

\* A call whose place is one of seeking is a pardo's or a worker's.
LEMMA Places ==
  ASSUME NEW f, FrameOK(f)
  PROVE  /\ f.at \in Seeking => f.op \in {"do", "worker"}
         /\ f.at \in Ats /\ f.op \in {"main", "worker", "for", "do", "job"}
         /\ f.op = "worker" => f.at \in WorkerPlaces
         /\ f.op = "main" => f.at \in MainPlaces
         /\ f.op = "do" => f.at \in Pardos
  BY DEF FrameOK, FrameType, Seeking, MainPlaces, Final

\* pardo asks for its right half back.
LEMMA PopOwnKeeps ==
  ASSUME SchedulerInv, NEW w \in Worker, PopOwn(w)
  PROVE  SchedulerInv'
<1>1. /\ reg[w] = D!Idle /\ Top(w).op = "do" /\ Top(w).at = "own" /\ D!BottomLower(w)
      /\ stack' = stack /\ KeepRest
  BY DEF PopOwn, In
<1>2. /\ DequeInv' /\ SameSlots /\ SameHeld
      /\ reg'[w].at \in {"bottom1", "returned"}
      /\ reg'[w].at = "returned" => reg'[w].job = NoJob /\ Avail(w) = {}
      /\ \A u \in Worker \ {w} : reg'[u] = reg[u]
  BY <1>1, BottomLowerStep DEF SchedulerInv
<1>3. Top(w)' = Top(w)
  BY <1>1 DEF Top
<1>4. RegSuits(w)'
  BY <1>1, <1>2, <1>3 DEF RegSuits, Lowering
<1>5. reg[w].at = "idle"
  BY <1>1 DEF D!Idle
<1>6. OwnAnswered(w)' => reg'[w].job = NoJob /\ Avail(w) = {}
  BY <1>2 DEF OwnAnswered, Answered
<1>7. \/ Avail(w) = {}
      \/ reg'[w].at = "returned" <=> reg[w].at = "returned"
  BY <1>2, <1>5
<1>. QED
  BY <1>1, <1>2, <1>4, <1>6, <1>7, OneMoves

\* A worker's stack after its innermost call has moved on to another place.
LEMMA MovedOn ==
  ASSUME SchedulerInv, NEW w \in Worker, NEW at \in Ats, Become(w, At(w, at))
  PROVE  /\ Top(w)'.op = Top(w).op /\ Top(w)'.at = at
         /\ Top(w)'.lo = Top(w).lo /\ Top(w)'.hi = Top(w).hi
         /\ \A v \in Worker \ {w} : Top(v)' = Top(v) /\ stack'[v] = stack[v]
         /\ Top(w)' = [Top(w) EXCEPT !.at = at]
<1>1. stack \in [Worker -> Seq(FrameType)] /\ Top(w) \in FrameType
  BY Facts DEF SchedulerInv, DataInv
<1>2. stack'[w] = At(w, at) /\ \A v \in Worker \ {w} : stack'[v] = stack[v]
  BY <1>1 DEF Become
<1>3. PICK f, s : f = [Top(w) EXCEPT !.at = at] /\ s = Tail(stack[w])
  OBVIOUS
<1>4. s \in Seq(FrameType)
  <2>1. stack[w] # <<>> /\ stack[w] \in Seq(FrameType)
    BY FrameTypes DEF SchedulerInv
  <2>. QED
    BY <1>3, <2>1
<1>5. f \in FrameType
  BY <1>1, <1>3 DEF FrameType
<1>6. Head(<<f>> \o s) = f
  BY <1>4, <1>5
<1>7. Top(w)' = f
  BY <1>2, <1>3, <1>6 DEF Top, At, Under
<1>. QED
  BY <1>1, <1>2, <1>3, <1>7 DEF Top, FrameType

\* A waiting pardo or an idle worker looks into its own deque.
LEMMA SeekOwnKeeps ==
  ASSUME SchedulerInv, NEW w \in Worker, SeekOwn(w)
  PROVE  SchedulerInv'
<1>1. /\ reg[w] = D!Idle /\ reg[w].at = "idle" /\ Top(w).at = "seek" /\ D!BottomLower(w)
      /\ Become(w, At(w, "popped")) /\ KeepRest
  BY DEF SeekOwn, In, D!Idle
<1>2. /\ DequeInv' /\ SameSlots /\ SameHeld
      /\ reg'[w].at \in {"bottom1", "returned"}
      /\ reg'[w].at = "returned" => reg'[w].job = NoJob /\ Avail(w) = {}
      /\ \A u \in Worker \ {w} : reg'[u] = reg[u]
  BY <1>1, BottomLowerStep DEF SchedulerInv
<1>3. Top(w).op \in {"do", "worker"} /\ FrameOK(Top(w)) /\ Behind(Top(w))
  BY <1>1, Facts, Places DEF Seeking
<1>a. PICK at \in Ats : at = "popped"
  BY DEF Ats, Pardos
<1>b. Become(w, At(w, at))
  BY <1>1, <1>a
<1>4. Moves(w, Top(w), [Top(w) EXCEPT !.at = at])
  <2>1. at \in WorkerPlaces /\ at \in Seeking
    BY <1>a DEF WorkerPlaces, Seeking
  <2>2. Top(w).at \notin {"spawn", "joined", "own"} /\ at # "joined"
    BY <1>1, <1>a
  <2>. QED
    BY <1>3, <2>1, <2>2, MovesOn
<1>5. Top(w)'.op = Top(w).op /\ Top(w)'.at = "popped"
  BY <1>a, <1>b, MovedOn
<1>6. RegSuits(w)'
  BY <1>2, <1>3, <1>5 DEF RegSuits, Lowering
<1>7. ~ OwnAnswered(w)'
  BY <1>5 DEF OwnAnswered, Answered
<1>. QED
  BY <1>1, <1>2, <1>4, <1>6, <1>7, <1>b, OneMoves

\* It picks a victim and reads that deque's age.
LEMMA TryStealKeeps ==
  ASSUME SchedulerInv, NEW w \in Worker, TrySteal(w)
  PROVE  SchedulerInv'
<1>1. /\ reg[w] = D!Idle /\ reg[w].at = "idle" /\ Top(w).at = "steal"
      /\ Become(w, At(w, "stole")) /\ KeepRest
  BY DEF TrySteal, In, D!Idle
<1>2. PICK v \in Worker \ {w} : D!TopReadAge(w, v)
  BY DEF TrySteal
<1>3. DequeInv' /\ SameSlots /\ SameHeld
  BY <1>2, TopReadAgeStep DEF SchedulerInv
<1>4. reg'[w].at = "top1" /\ \A u \in Worker \ {w} : reg'[u] = reg[u]
  BY <1>2, Facts DEF D!TopReadAge, D!Goto
<1>5. Top(w).op \in {"do", "worker"} /\ FrameOK(Top(w)) /\ Behind(Top(w))
  BY <1>1, Facts, Places DEF Seeking
<1>a. PICK at \in Ats : at = "stole"
  BY DEF Ats, Pardos
<1>b. Become(w, At(w, at))
  BY <1>1, <1>a
<1>6. Moves(w, Top(w), [Top(w) EXCEPT !.at = at])
  <2>1. at \in WorkerPlaces /\ at \in Seeking
    BY <1>a DEF WorkerPlaces, Seeking
  <2>2. Top(w).at \notin {"spawn", "joined", "own"} /\ at # "joined"
    BY <1>1, <1>a
  <2>. QED
    BY <1>5, <2>1, <2>2, MovesOn
<1>7. Top(w)'.op = Top(w).op /\ Top(w)'.at = "stole"
  BY <1>a, <1>b, MovedOn
<1>8. RegSuits(w)'
  BY <1>4, <1>5, <1>7 DEF RegSuits, Reading
<1>9. ~ OwnAnswered(w)'
  BY <1>7 DEF OwnAnswered, Answered
<1>. QED
  BY <1>1, <1>3, <1>4, <1>6, <1>8, <1>9, <1>b, OneMoves

\* A worker that has its answer, no job, goes on.
LEMMA AnswerKeeps ==
  ASSUME SchedulerInv, NEW w \in Worker, reg[w].at = "returned", reg[w].job = NoJob,
         Consume(w), KeepDeques, KeepRest, NEW at \in {"seek", "steal"}, Become(w, At(w, at)),
         Top(w).op = "do" /\ Top(w).at = "own" => Avail(w) = {},
         Top(w).at \in {"own", "popped", "stole"}
  PROVE  SchedulerInv'
<1>1. /\ DequeInv' /\ SameSlots /\ reg'[w].at = "idle"
      /\ \A u \in Worker \ {w} : reg'[u] = reg[u] /\ HeldJob(u)' = HeldJob(u)
      /\ HeldJob(w)' = NoJob /\ HeldJob(w) = NoJob
  BY Registers DEF SchedulerInv, KeepDeques
<1>2. SameHeld
  BY <1>1 DEF SameHeld
<1>3. Top(w).op \in {"do", "worker"} /\ FrameOK(Top(w)) /\ Behind(Top(w))
  BY Facts DEF FrameOK, Final, MainPlaces
<1>4. Moves(w, Top(w), [Top(w) EXCEPT !.at = at])
  <2>1. at \in WorkerPlaces /\ at \in Seeking /\ at \in Ats
    BY DEF WorkerPlaces, Seeking, Ats
  <2>2. Top(w).at \notin {"spawn", "joined"} /\ at # "joined"
    OBVIOUS
  <2>. QED
    BY <1>3, <2>1, <2>2, MovesOn
<1>5. Top(w)'.op = Top(w).op /\ Top(w)'.at = at
  <2>1. at \in Ats
    BY DEF Ats, Pardos
  <2>. QED
    BY <2>1, MovedOn
<1>6. RegSuits(w)' /\ ~ OwnAnswered(w)'
  BY <1>1, <1>5 DEF RegSuits, OwnAnswered, Answered
<1>. QED
  <2>1. at \in Ats
    BY DEF Ats, Pardos
  <2>. QED
    BY <1>1, <1>2, <1>4, <1>6, <2>1, OneMoves

\* It found nothing and tries to steal.
LEMMA NothingFoundKeeps ==
  ASSUME SchedulerInv, NEW w \in Worker, NothingFound(w)
  PROVE  SchedulerInv'
  BY AnswerKeeps DEF NothingFound, Answered

\* The right half was stolen: pardo begins to wait for it.
LEMMA RightTakenKeeps ==
  ASSUME SchedulerInv, NEW w \in Worker, RightTaken(w)
  PROVE  SchedulerInv'
<1>1. Top(w).op = "do" /\ Top(w).at = "own" /\ reg[w].at = "returned" /\ reg[w].job = NoJob
  BY DEF RightTaken, Answered
<1>2. RightJob(Top(w)) # NoJob
  BY <1>1, Facts
<1>3. Avail(w) = {}
  BY <1>1, <1>2 DEF SchedulerInv, OwnInv, Answered
<1>. QED
  BY <1>1, <1>3, AnswerKeeps DEF RightTaken

\* A worker outside any deque operation moves on.
LEMMA IdleMoves ==
  ASSUME SchedulerInv, NEW w \in Worker, reg[w] = D!Idle, KeepReg, KeepRest,
         NEW at \in Ats, Become(w, At(w, at)), at # "own", Top(w).at # "own",
         Moves(w, Top(w), [Top(w) EXCEPT !.at = at])
  PROVE  SchedulerInv'
<1>1. DequeInv' /\ SameSlots /\ SameHeld /\ reg' = reg
  BY Registers DEF SchedulerInv, KeepReg
<1>2. Top(w)'.at = at
  BY MovedOn
<1>3. RegSuits(w)' /\ ~ OwnAnswered(w)'
  BY <1>1, <1>2 DEF RegSuits, OwnAnswered, Answered, D!Idle
<1>. QED
  BY <1>1, <1>3, OneMoves

\* The wait is over: the right half is done, or the program ends.
LEMMA StopSeekingKeeps ==
  ASSUME SchedulerInv, NEW w \in Worker, StopSeeking(w)
  PROVE  SchedulerInv'
<1>1. /\ reg[w] = D!Idle /\ Top(w).at \in {"seek", "steal"} /\ KeepReg /\ KeepRest
      /\ BreakEarly(w) /\ Become(w, At(w, IF Top(w).op = "do" THEN "joined" ELSE "gone"))
  BY DEF StopSeeking, In
<1>2. PICK at \in Ats : at = IF Top(w).op = "do" THEN "joined" ELSE "gone"
  BY DEF Ats, Pardos, WorkerPlaces
<1>3. PICK f : f = Top(w)
  OBVIOUS
<1>4. f.op \in {"do", "worker"} /\ FrameOK(f) /\ Behind(f) /\ f.at \in {"seek", "steal"}
  BY <1>1, <1>3, Facts, Places DEF Seeking
<1>5. Moves(w, f, [f EXCEPT !.at = at])
  <2>1. CASE f.op = "do"
    <3>1. RightJob(f) \in done
      BY <1>1, <1>3, <2>1 DEF BreakEarly
    <3>2. Ran(Mid(f), f.hi)
      BY <3>1 DEF SchedulerInv, RanInv, RightJob
    <3>. QED
      BY <1>2, <1>3, <1>4, <2>1, <3>1, <3>2, MovesOn
  <2>2. CASE f.op = "worker"
    <3>1. at \in WorkerPlaces
      BY <1>2, <1>3, <2>2 DEF WorkerPlaces
    <3>. QED
      BY <1>4, <2>2, <3>1, MovesOn
  <2>. QED
    BY <1>4, <2>1, <2>2
<1>6. Become(w, At(w, at)) /\ at # "own" /\ Top(w).at # "own"
  BY <1>1, <1>2
<1>. QED
  BY <1>1, <1>3, <1>5, <1>6, IdleMoves

\* An idle worker on its way to sleep, and back.
LEMMA SleepKeeps ==
  ASSUME SchedulerInv, NEW w \in Worker, TimeOut(w) \/ GoToSleep(w) \/ WakeUp(w)
  PROVE  SchedulerInv'
<1>1. PICK at : /\ at \in {"nap", "drowsy", "set", "asleep", "seek"}
                /\ reg[w] = D!Idle /\ Top(w).op = "worker" /\ KeepReg /\ KeepRest
                /\ Become(w, At(w, at))
  <2>1. CASE TimeOut(w)
    <3>1. PICK at : at = "nap"
      OBVIOUS
    <3>. QED
      BY <2>1, <3>1 DEF TimeOut, In
  <2>2. CASE GoToSleep(w)
    BY <2>2 DEF GoToSleep, SleepStep, In
  <2>3. CASE WakeUp(w)
    BY <2>3 DEF WakeUp, SleepStep, In
  <2>. QED
    BY <2>1, <2>2, <2>3
<1>2. at \in WorkerPlaces /\ at \in Ats
  BY <1>1 DEF WorkerPlaces, Asleep, Seeking, Ats
<1>3. FrameOK(Top(w)) /\ Behind(Top(w)) /\ Top(w).at \in WorkerPlaces
  BY <1>1, Facts, Places
<1>4. Moves(w, Top(w), [Top(w) EXCEPT !.at = at])
  BY <1>1, <1>2, <1>3, MovesOn
<1>5. Top(w).at # "own" /\ at # "own"
  BY <1>1, <1>3 DEF WorkerPlaces, Asleep, Seeking
<1>. QED
  BY <1>1, <1>2, <1>4, <1>5, IdleMoves

\* All threads are gone and main ends.
LEMMA JoinThreadsKeeps ==
  ASSUME SchedulerInv, JoinThreads
  PROVE  SchedulerInv'
<1>1. /\ reg[Main] = D!Idle /\ Top(Main).op = "main" /\ Top(Main).at = "spam"
      /\ KeepReg /\ KeepRest /\ Become(Main, At(Main, "end")) /\ Main \in Worker
  BY SchedulerAssumption DEF JoinThreads, In
<1>2. PICK at \in Ats : at = "end"
  BY DEF Ats, MainPlaces, Final
<1>3. FrameOK(Top(Main)) /\ Behind(Top(Main))
  BY <1>1, Facts
<1>4. Moves(Main, Top(Main), [Top(Main) EXCEPT !.at = at])
  BY <1>1, <1>2, <1>3, MovesOn DEF Final
<1>. QED
  BY <1>1, <1>2, <1>4, IdleMoves

\* A wake-up moves sleepers on, whose workers are in no deque operation.
MovedBy(v) ==
    \E at \in Ats : /\ stack'[v] = At(v, at) /\ at # "own" /\ Top(v).at # "own"
                    /\ reg[v].at = "idle" /\ Moves(v, Top(v), [Top(v) EXCEPT !.at = at])

\* A step in which sleepers wake, and who wakes them goes on.
LEMMA WakeMoves ==
  ASSUME SchedulerInv, KeepData, finishedFlag' \in BOOLEAN,
         finishedFlag' => \/ finishedFlag
                          \/ Ran(Start, End) /\ Top(Main)'.at \in Final /\ Height(Main) = 1,
         DequeInv', SameSlots, SameHeld,
         DOMAIN stack' = Worker, stack' = [v \in Worker |-> stack'[v]],
         \A v \in Worker : stack'[v] = stack[v] \/ MovedBy(v),
         \A v \in Worker : \/ reg'[v] = reg[v]
                           \/ /\ reg[v].at \in {"wake", "notify"} /\ reg'[v].at \in Holding
                              /\ reg'[v].job = reg[v].job
  PROVE  SchedulerInv'
<1>1. DataInv /\ StackInv
  BY DEF SchedulerInv
<1>2. OnlyMoves
  BY <1>1, AtMoves DEF MovedBy
<1>3. \A v \in Worker : stack'[v] = stack[v] => Top(v)' = Top(v)
  BY DEF Top
<1>4. ASSUME NEW v \in Worker, MovedBy(v)
      PROVE  reg[v].at = "idle" /\ reg'[v] = reg[v] /\ Top(v)'.at # "own"
  <2>1. PICK at \in Ats : stack'[v] = At(v, at) /\ at # "own"
    BY <1>4 DEF MovedBy
  <2>2. PICK h, g : h = Height(v) /\ g = [Top(v) EXCEPT !.at = at]
    OBVIOUS
  <2>3. Top(v)' = g
    <3>1. PICK s : s = Tail(stack[v])
      OBVIOUS
    <3>2. s \in Seq(FrameType) /\ g \in FrameType
      <4>1. stack[v] # <<>> /\ stack[v] \in Seq(FrameType)
        BY <1>1, FrameTypes
      <4>2. Top(v) \in FrameType
        BY Facts
      <4>3. g \in FrameType
        BY <2>2, <4>2 DEF FrameType
      <4>. QED
        BY <3>1, <4>1, <4>3
    <3>3. Head(<<g>> \o s) = g
      BY <3>2
    <3>. QED
      BY <2>1, <2>2, <3>1, <3>3 DEF Top, At, Under
  <2>4. g.at = at
    BY <2>2, Facts DEF FrameType
  <2>5. reg[v].at = "idle"
    BY <1>4 DEF MovedBy
  <2>. QED
    BY <2>1, <2>3, <2>4, <2>5
<1>5. ASSUME NEW v \in Worker
      PROVE  /\ RegSuits(v)'
             /\ \/ Avail(v) = {}
                \/ reg'[v].at = "returned" <=> reg[v].at = "returned"
                \/ Top(v).op # "do" \/ Top(v).at # "own"
             /\ OwnAnswered(v)' => OwnAnswered(v) /\ reg'[v] = reg[v]
  <2>1. RegSuits(v)
    BY Facts
  <2>2. CASE MovedBy(v)
    BY <1>4, <2>2 DEF RegSuits, OwnAnswered, Answered
  <2>3. CASE ~ MovedBy(v)
    <3>1. Top(v)' = Top(v)
      BY <1>3, <2>3
    <3>2. CASE reg'[v] = reg[v]
      BY <2>1, <3>1, <3>2 DEF RegSuits, OwnAnswered, Answered
    <3>3. CASE reg'[v] # reg[v]
      <4>1. /\ reg[v].at \in {"wake", "notify"} /\ reg'[v].at \in Holding
            /\ reg'[v].job = reg[v].job
        BY <3>3
      <4>2. Top(v).at # "own" /\ RegSuits(v)'
        BY <2>1, <3>1, <4>1 DEF RegSuits, Holding, Lowering, Reading
      <4>. QED
        BY <3>1, <4>2 DEF OwnAnswered, Answered
    <3>. QED
      BY <3>2, <3>3
  <2>. QED
    BY <2>2, <2>3
<1>6. finishedFlag' => finishedFlag \/ (Ran(Start, End) /\ After(Main, 1).at \in Final)
  <2>1. Main \in Worker
    BY SchedulerAssumption
  <2>2. ASSUME Height(Main) = 1 PROVE Top(Main)' = After(Main, 1)
    <3>1. Len(stack'[Main]) = 1
      BY <1>2, <2>1, <2>2 DEF OnlyMoves
    <3>2. stack' \in [Worker -> Seq(FrameType)] /\ Len(stack'[Main]) >= 1
      BY <1>2, <3>1 DEF OnlyMoves
    <3>3. Top(Main)' = After(Main, Len(stack'[Main]))
      BY <2>1, <3>2, TopAfter
    <3>. QED
      BY <3>1, <3>3
  <2>. QED
    BY <2>2
<1>. QED
  BY <1>2, <1>5, <1>6, MoveStep

\* A sleeper whose counter moved on, or that is notified, moves within its loop.
LEMMA AWakened ==
  ASSUME SchedulerInv, NEW v \in Worker, Top(v).at \in {"set", "asleep", "stale"},
         NEW at \in {"woken", "stale"}, stack'[v] = At(v, at)
  PROVE  MovedBy(v)
<1>1. at \in Ats /\ at \in WorkerPlaces /\ at # "own" /\ Top(v).at # "own"
  BY DEF Ats, WorkerPlaces, Asleep
<1>2. FrameOK(Top(v)) /\ Behind(Top(v)) /\ RegSuits(v)
  BY Facts
<1>3. Top(v).op = "worker"
  BY <1>2 DEF FrameOK, MainPlaces, Final, Pardos
<1>4. reg[v].at = "idle"
  BY <1>2 DEF RegSuits
<1>5. Moves(v, Top(v), [Top(v) EXCEPT !.at = at])
  BY <1>1, <1>2, <1>3, MovesOn
<1>. QED
  BY <1>1, <1>4, <1>5 DEF MovedBy

\* Bumping the counter or notifying leaves a worker alone or moves it within its loop.
LEMMA Waking ==
  ASSUME SchedulerInv, NEW v \in Worker, stack'[v] = Bumped(v) \/ stack'[v] = Notified(v)
  PROVE  stack'[v] = stack[v] \/ MovedBy(v)
<1>1. \/ stack'[v] = stack[v]
      \/ /\ Top(v).at \in {"set", "asleep", "stale"}
         /\ \E at \in {"woken", "stale"} : stack'[v] = At(v, at)
  BY DEF Bumped, Notified
<1>. QED
  BY <1>1, AWakened

\* wake_up_a_worker: the counter is bumped, and a sleeper notified.
LEMMA WakeKeeps ==
  ASSUME SchedulerInv, NEW w \in Worker, WakeOneWorker(w) \/ NotifyOne(w)
  PROVE  SchedulerInv'
<1>1. /\ reg[w].at \in {"wake", "notify"} /\ KeepDeques /\ KeepRest
      /\ \E x \in Holding : reg' = [reg EXCEPT ![w].at = x]
  BY DEF WakeOneWorker, NotifyOne, Holding
<1>2. PICK x \in Holding : reg' = [reg EXCEPT ![w].at = x]
  BY <1>1
<1>3. /\ DequeInv' /\ SameSlots /\ SameHeld
      /\ \A u \in Worker \ {w} : reg'[u] = reg[u]
      /\ reg'[w].at = x /\ reg'[w].job = reg[w].job
  BY <1>1, <1>2, Registers DEF SchedulerInv, KeepDeques, Holding
<1>4. stack \in [Worker -> Seq(FrameType)]
  BY DEF SchedulerInv, DataInv
<1>5. /\ DOMAIN stack' = Worker /\ stack' = [v \in Worker |-> stack'[v]]
      /\ \A v \in Worker : \/ stack'[v] = stack[v] \/ stack'[v] = Bumped(v)
                           \/ stack'[v] = Notified(v)
  <2>1. CASE stack' = stack
    BY <1>4, <2>1
  <2>2. CASE stack' = [v \in Worker |-> Bumped(v)]
    BY <2>2
  <2>3. CASE \E some \in SUBSET Sleepers :
                stack' = [v \in Worker |-> IF v \in some THEN Notified(v) ELSE stack[v]]
    BY <2>3
  <2>. QED
    BY <2>1, <2>2, <2>3 DEF WakeOneWorker, NotifyOne
<1>6. \A v \in Worker : stack'[v] = stack[v] \/ MovedBy(v)
  BY <1>5, Waking
<1>7. KeepData /\ finishedFlag' = finishedFlag /\ finishedFlag' \in BOOLEAN
  BY <1>1 DEF KeepRest, KeepData, SchedulerInv, DataInv
<1>. QED
  BY <1>1, <1>3, <1>5, <1>6, <1>7, WakeMoves

\* The destructor sets the flag and wakes everybody, again and again.
LEMMA SpamKeeps ==
  ASSUME SchedulerInv, Shutdown \/ SpamWake \/ SpamNotify
  PROVE  SchedulerInv'
<1>0. Main \in Worker
  BY SchedulerAssumption
<1>1. /\ reg[Main].at = "idle" /\ Top(Main).op = "main"
      /\ Top(Main).at \in {"returned", "spam", "notify"}
      /\ KeepReg /\ KeepData
      /\ finishedFlag' = finishedFlag \/ Shutdown
  BY DEF Shutdown, SpamWake, SpamNotify, In, D!Idle, KeepRest, KeepData
<1>2. DequeInv' /\ SameSlots /\ SameHeld /\ reg' = reg
  BY <1>0, <1>1, Registers DEF SchedulerInv, KeepReg
<1>3. stack \in [Worker -> Seq(FrameType)]
  BY DEF SchedulerInv, DataInv
<1>4. PICK at \in {"spam", "notify"} :
        /\ stack'[Main] = At(Main, at) /\ DOMAIN stack' = Worker
        /\ stack' = [v \in Worker |-> stack'[v]]
        /\ \A v \in Worker \ {Main} : \/ stack'[v] = stack[v] \/ stack'[v] = Bumped(v)
                                      \/ stack'[v] = Notified(v)
  <2>1. CASE Shutdown
    <3>1. stack' = [stack EXCEPT ![Main] = At(Main, "spam")]
      BY <2>1 DEF Shutdown, Become
    <3>. QED
      BY <1>0, <1>3, <3>1
  <2>2. CASE SpamWake
    <3>1. stack' = [v \in Worker |-> IF v = Main THEN At(v, "notify") ELSE Bumped(v)]
      BY <2>2 DEF SpamWake
    <3>. QED
      BY <1>0, <3>1
  <2>3. CASE SpamNotify
    <3>1. stack' = [v \in Worker |-> IF v = Main THEN At(v, "spam") ELSE Notified(v)]
      BY <2>3 DEF SpamNotify
    <3>. QED
      BY <1>0, <3>1
  <2>. QED
    BY <2>1, <2>2, <2>3
<1>5. FrameOK(Top(Main)) /\ Behind(Top(Main)) /\ Height(Main) = 1 /\ Top(Main) \in FrameType
  BY <1>0, <1>1, Facts
<1>6. at \in Ats /\ at \in Final /\ at # "own"
  BY <1>4 DEF Ats, MainPlaces, Final
<1>7. Moves(Main, Top(Main), [Top(Main) EXCEPT !.at = at])
  BY <1>0, <1>1, <1>5, <1>6, MovesOn
<1>8. \A v \in Worker : stack'[v] = stack[v] \/ MovedBy(v)
  <2>1. MovedBy(Main)
    BY <1>1, <1>4, <1>6, <1>7 DEF MovedBy
  <2>. QED
    BY <1>4, <2>1, Waking
<1>9. Shutdown => Ran(Start, End) /\ finishedFlag' = TRUE
  <2>1. Ran(Start, End)
    BY <1>1, <1>5 DEF Behind
  <2>. QED
    BY <2>1 DEF Shutdown
<1>10. Top(Main)'.at \in Final
  <2>1. PICK s, g : s = Tail(stack[Main]) /\ g = [Top(Main) EXCEPT !.at = at]
    OBVIOUS
  <2>2. s \in Seq(FrameType)
    <3>1. stack[Main] # <<>> /\ stack[Main] \in Seq(FrameType)
      BY <1>0, FrameTypes DEF SchedulerInv
    <3>. QED
      BY <2>1, <3>1
  <2>3. g \in FrameType /\ g.at = at
    BY <1>5, <1>6, <2>1 DEF FrameType
  <2>4. Head(<<g>> \o s) = g
    BY <2>2, <2>3
  <2>5. Top(Main)' = g
    BY <1>4, <2>1, <2>4 DEF Top, At, Under
  <2>. QED
    BY <1>6, <2>3, <2>5
<1>11. finishedFlag' \in BOOLEAN
  BY <1>1, <1>9 DEF SchedulerInv, DataInv
<1>. QED
  BY <1>1, <1>2, <1>4, <1>5, <1>8, <1>9, <1>10, <1>11, WakeMoves

-----------------------------------------------------------------------------
(* A job is taken from one end of a deque.                                 *)

\* The job an owner takes back is its innermost pardo's.
LEMMA OwnerTakes ==
  ASSUME SchedulerInv, NEW w \in Worker, NEW s \in Avail(w),
         \A u \in Avail(w) : u <= s /\ u \in Nat, reg[w].at \in Lowering
  PROVE  /\ Top(w).op = "do" /\ Top(w).at = "own" /\ deq[w][s] = RightJob(Top(w))
         /\ \A pos \in [Avail(w) -> 1 .. Height(w)] : Matches(w, pos) => pos[s] = Height(w)
<1>1. PICK h : h = Height(w)
  OBVIOUS
<1>2. /\ Top(w) = F(w, h) /\ h \in Nat \ {0} /\ RegSuits(w)
  BY <1>1, Facts
<1>3. DataInv /\ StackInv /\ MatchInv
  BY DEF SchedulerInv
<1>4. Top(w).op = "do" /\ Top(w).at = "own"
  <2>1. \/ Top(w).op = "do" /\ Top(w).at = "own"
        \/ Top(w).op \in {"do", "worker"} /\ Top(w).at = "popped"
    BY <1>2 DEF RegSuits, Lowering, Holding, Reading
  <2>2. Top(w).op \in {"do", "worker"} /\ Top(w).at = "popped" => Avail(w) = {}
    BY <1>1, <1>2, <1>3, SeekerEmpty DEF Seeker, Seeking, Pending
  <2>. QED
    BY <2>1, <2>2
<1>5. Pending(w, h)
  BY <1>1, <1>2, <1>4 DEF Pending, Lowering
<1>6. ASSUME NEW pos \in [Avail(w) -> 1 .. Height(w)], Matches(w, pos)
      PROVE  pos[s] = h
  <2>1. pos[s] \in 1 .. h
    BY <1>1
  <2>2. SUFFICES ASSUME h > pos[s] PROVE FALSE
    BY <1>2, <2>1
  <2>3. h \in 1 .. Height(w)
    BY <1>1, <1>2
  <2>4. PICK u \in Avail(w) : pos[u] = h
    BY <1>5, <1>6, <2>2, <2>3 DEF Matches
  <2>5. u < s
    BY <2>2, <2>4, <1>2
  <2>6. pos[u] < pos[s]
    BY <1>6, <2>5 DEF Matches
  <2>. QED
    BY <1>2, <2>1, <2>2, <2>4, <2>6
<1>7. PICK pos \in [Avail(w) -> 1 .. Height(w)] : Matches(w, pos)
  BY <1>3 DEF MatchInv
<1>8. deq[w][s] = RightJob(F(w, h))
  BY <1>6, <1>7 DEF Matches
<1>. QED
  BY <1>1, <1>2, <1>4, <1>6, <1>8

\* The slots left are matched as before.
LEMMA TakeMatch ==
  ASSUME SchedulerInv, stack' = stack, NEW v \in Worker, NEW s, deq' = deq,
         \A u \in Avail(v) : u \in Nat, Avail(v)' = Avail(v) \ {s},
         \/ /\ \A p \in 1 .. Height(v) : Pending(v, p)' <=> Pending(v, p)
            /\ s \in Avail(v) => \A u \in Avail(v) : s <= u
         \/ /\ \A p \in 1 .. Height(v) : p # Height(v) => (Pending(v, p)' <=> Pending(v, p))
            /\ ~ Pending(v, Height(v))' /\ s \in Avail(v) /\ \A u \in Avail(v) : u <= s
            /\ \A pos \in [Avail(v) -> 1 .. Height(v)] : Matches(v, pos) => pos[s] = Height(v)
  PROVE  \E pos \in [Avail(v)' -> 1 .. Height(v)'] : Matches(v, pos)'
<1>1. PICK pos \in [Avail(v) -> 1 .. Height(v)] : Matches(v, pos)
  BY DEF SchedulerInv, MatchInv
<1>2. /\ \A p : F(v, p)' = F(v, p)
      /\ Height(v)' = Height(v) /\ Height(v) \in Nat \ {0}
  BY FrameTypes, PrimedFrames DEF F, After, Height, SchedulerInv
<1>3. PICK q : q = [u \in Avail(v) \ {s} |-> pos[u]]
  OBVIOUS
<1>4. q \in [Avail(v) \ {s} -> 1 .. Height(v)] /\ \A u \in Avail(v) \ {s} : q[u] = pos[u]
  BY <1>3
<1>5. ASSUME NEW u \in Avail(v) \ {s}
      PROVE  /\ q[u] \in 1 .. Height(v) /\ Pending(v, q[u])'
             /\ deq'[v][u] = RightJob(F(v, q[u]))
             /\ \A p \in 1 .. Height(v) :
                   p > q[u] => /\ ~ Seeker(F(v, p))
                               /\ Pending(v, p)' => \E x \in Avail(v) \ {s} : q[x] = p
  <2>1. PICK k : k = pos[u]
    OBVIOUS
  <2>2. q[u] = k /\ k \in 1 .. Height(v) /\ Pending(v, k) /\ deq[v][u] = RightJob(F(v, k))
    BY <1>1, <1>4, <2>1 DEF Matches
  <2>3. ASSUME NEW p \in 1 .. Height(v), p > k
        PROVE  ~ Seeker(F(v, p)) /\ (Pending(v, p) => \E x \in Avail(v) : pos[x] = p)
    BY <1>1, <2>1, <2>3 DEF Matches
  <2>4. CASE /\ \A p \in 1 .. Height(v) : Pending(v, p)' <=> Pending(v, p)
             /\ s \in Avail(v) => \A x \in Avail(v) : s <= x
    <3>1. Pending(v, k)'
      BY <2>2, <2>4
    <3>2. ASSUME NEW p \in 1 .. Height(v), p > k, Pending(v, p)'
          PROVE  \E x \in Avail(v) \ {s} : q[x] = p
      <4>1. PICK x \in Avail(v) : pos[x] = p
        BY <2>3, <2>4, <3>2
      <4>2. x # s
        <5>1. ASSUME x = s PROVE FALSE
          <6>1. s < u
            BY <2>4, <5>1
          <6>2. pos[s] < pos[u]
            BY <1>1, <5>1, <6>1 DEF Matches
          <6>. QED
            BY <1>2, <2>1, <2>2, <3>2, <4>1, <5>1, <6>2
        <5>. QED
          BY <5>1
      <4>. QED
        BY <1>4, <4>1, <4>2
    <3>. QED
      BY <2>2, <2>3, <3>1, <3>2
  <2>5. CASE /\ \A p \in 1 .. Height(v) : p # Height(v) => (Pending(v, p)' <=> Pending(v, p))
             /\ ~ Pending(v, Height(v))' /\ s \in Avail(v) /\ \A x \in Avail(v) : x <= s
             /\ pos[s] = Height(v)
    <3>1. k < Height(v)
      <4>1. u < s
        BY <2>5
      <4>2. pos[u] < pos[s]
        BY <1>1, <2>5, <4>1 DEF Matches
      <4>. QED
        BY <2>1, <2>5, <4>2
    <3>2. Pending(v, k)'
      BY <1>2, <2>2, <2>5, <3>1
    <3>3. ASSUME NEW p \in 1 .. Height(v), p > k, Pending(v, p)'
          PROVE  \E x \in Avail(v) \ {s} : q[x] = p
      <4>1. p # Height(v)
        <5>1. ASSUME p = Height(v) PROVE FALSE
          <6>1. PICK h : h = Height(v)
            OBVIOUS
          <6>2. Pending(v, h)'
            BY <3>3, <5>1, <6>1
          <6>3. h = Height(v)'
            BY <1>2, <6>1
          <6>. QED
            BY <2>5, <6>2, <6>3
        <5>. QED
          BY <5>1
      <4>2. PICK x \in Avail(v) : pos[x] = p
        BY <2>3, <2>5, <3>3, <4>1
      <4>. QED
        BY <1>4, <2>5, <4>1, <4>2
    <3>. QED
      BY <2>2, <2>3, <3>2, <3>3
  <2>. QED
    BY <1>1, <2>4, <2>5
<1>6. \A x, u \in Avail(v) \ {s} : x < u => q[x] < q[u]
  BY <1>1, <1>4 DEF Matches
<1>7. Matches(v, q)'
  BY <1>2, <1>5, <1>6 DEF Matches, RightJob, Mid
<1>. QED
  BY <1>2, <1>4, <1>7

\* The slots of a deque are numbers.
LEMMA AvailNat ==
  ASSUME DequeInv, NEW v \in Worker
  PROVE  Avail(v) \subseteq Nat
<1>1. bot[v] \in Nat /\ age[v].top \in Nat /\ RegOK(v)
  BY DEF DequeInv, DequeTypes, AgeType
<1>2. reg[v].at \in {"bottom2", "bottom3"} => reg[v].bot \in Nat
  BY <1>1 DEF RegOK, Holding
<1>. QED
  BY <1>1, <1>2 DEF Avail

\* Nobody else's iterations or jobs change.
LEMMA TakePlaces ==
  ASSUME SchedulerInv, UNCHANGED control, NEW w \in Worker, NEW v \in Worker, NEW s \in Nat,
         Takes(w, v, s)
  PROVE  ShareInv' /\ JobInv'
<1>0. DataInv /\ StackInv /\ stack' = stack /\ stack' \in [Worker -> Seq(FrameType)]
  BY DEF SchedulerInv, DataInv, control
<1>1. PICK a, b : a = <<"slot", v, s>> /\ b = <<"held", w, 0>>
  OBVIOUS
<1>2. a \in Name /\ b \in Name /\ a # b
  BY <1>1, Names
<1>3. PICK j : j = deq[v][s]
  OBVIOUS
<1>4. /\ JobOf(a) = j /\ JobOf(a)' = NoJob /\ JobOf(b) = NoJob /\ JobOf(b)' = j
  <2>1. SlotJob(v, s) = j /\ SlotJob(v, s)' = NoJob
    BY <1>3 DEF Takes, SlotJob
  <2>2. HeldJob(w) = NoJob /\ HeldJob(w)' = j
    BY <1>3 DEF Takes
  <2>. QED
    BY <1>1, <2>1, <2>2, Names
<1>5. Share(a) = JobSpan(j) /\ Share(a)' = {} /\ Share(b) = {} /\ Share(b)' = JobSpan(j)
  <2>1. JobSpan(NoJob) = {}
    BY DEF JobSpan
  <2>2. SlotJob(v, s) = j /\ SlotJob(v, s)' = NoJob /\ HeldJob(w) = NoJob /\ HeldJob(w)' = j
    BY <1>1, <1>4, Names
  <2>. QED
    BY <1>1, <2>1, <2>2, Names
<1>6. \A u \in Worker, p \in Nat : /\ FrameShare(u, p)' = FrameShare(u, p)
                                   /\ FrameJob(u, p)' = FrameJob(u, p)
                                   /\ Waiting(u, p)' <=> Waiting(u, p)
                                   /\ F(u, p)' = F(u, p)
  BY <1>0, PlacesKept
<1>7. ASSUME NEW x \in Name, x # a, x # b
      PROVE  JobOf(x)' = JobOf(x) /\ Share(x)' = Share(x)
  <2>1. PICK u \in Worker, p \in Nat :
           x = <<"frame", u, p>> \/ x = <<"slot", u, p>> \/ x = <<"held", u, 0>>
    BY Names
  <2>2. CASE x = <<"frame", u, p>>
    BY <1>6, <2>2, Names
  <2>3. CASE x = <<"slot", u, p>>
    <3>1. u # v \/ p # s
      BY <1>1, <1>7, <2>3
    <3>2. SlotJob(u, p)' = SlotJob(u, p)
      BY <3>1 DEF SlotJob, Takes
    <3>. QED
      BY <2>3, <3>2, Names
  <2>4. CASE x = <<"held", u, 0>>
    <3>1. u # w
      BY <1>1, <1>7, <2>4
    <3>2. HeldJob(u)' = HeldJob(u)
      BY <3>1 DEF Takes
    <3>. QED
      BY <2>4, <3>2, Names
  <2>. QED
    BY <2>1, <2>2, <2>3, <2>4
<1>8. ShareInv'
  <2>1. PICK I : I = {}
    OBVIOUS
  <2>2. hits' = [i \in DOMAIN hits |-> hits[i] + IF i \in I THEN 1 ELSE 0]
    BY <2>1 DEF control, SchedulerInv, DataInv
  <2>3. /\ \A x \in Name \ {b} : Share(x)' \subseteq Share(x)
        /\ Share(b)' \subseteq Share(b) \cup Share(a)
        /\ a # b => Share(a)' \cap Share(b)' = {}
        /\ I \subseteq Share(a) /\ Share(a)' \cap I = {} /\ Share(b)' \cap I = {}
    BY <1>2, <1>5, <1>7, <2>1
  <2>. QED
    BY <1>2, <2>2, <2>3, ShareStep DEF SchedulerInv
<1>9. JobInv'
  <2>1. \A x \in Name \ {b} : JobOf(x)' = JobOf(x) \/ JobOf(x)' = NoJob
    BY <1>2, <1>4, <1>7
  <2>2. \A x \in Name \ {b} : JobOf(x)' = JobOf(b)' => JobOf(b)' = NoJob
    <3>1. ASSUME NEW x \in Name \ {b}, JobOf(x)' = JobOf(b)' PROVE JobOf(b)' = NoJob
      <4>1. CASE x = a
        BY <1>4, <3>1, <4>1
      <4>2. CASE x # a
        <5>1. JobOf(x) = JobOf(a)
          BY <1>4, <1>7, <3>1, <4>2
        <5>2. JobOf(a) = NoJob
          BY <1>2, <4>2, <5>1 DEF SchedulerInv, JobInv
        <5>. QED
          BY <1>4, <5>2
      <4>. QED
        BY <4>1, <4>2
    <3>. QED
      BY <3>1
  <2>3. \A x \in Name : JobOf(x)' # NoJob => \E z \in Name : JobOf(z) = JobOf(x)'
    BY <1>2, <1>4, <1>7
  <2>4. done' = done
    BY DEF control
  <2>5. \A y \in Name : \E z \in Name : Share(y)' \subseteq Share(z)
    BY <1>2, <1>5, <1>7
  <2>6. \A x \in Name : x[1] = "frame" /\ JobOf(x)' # NoJob => JobOf(x)' = JobOf(x)
    BY <1>1, <1>7
  <2>. QED
    BY <1>2, <1>6, <2>1, <2>2, <2>3, <2>4, <2>5, <2>6, JobStep DEF SchedulerInv
<1>. QED
  BY <1>8, <1>9

\* Slots stay matched when the stacks and what is to be had do not change.
LEMMA SameMatch ==
  ASSUME SchedulerInv, StackInv', stack' = stack, NEW u \in Worker,
         deq' = deq, Avail(u)' = Avail(u),
         \A p \in 1 .. Height(u) : Pending(u, p)' <=> Pending(u, p)
  PROVE  \E pos \in [Avail(u)' -> 1 .. Height(u)'] : Matches(u, pos)'
<1>1. PICK m : m = Height(u)
  OBVIOUS
<1>2. /\ m \in Nat \ {0} /\ Height(u)' = m /\ Len(stack'[u]) = m
      /\ \A p : After(u, p) = F(u, p)
  BY <1>1, FrameTypes DEF F, After, Height, SchedulerInv
<1>3. Kept(u, m)
  BY <1>1, <1>2 DEF Kept
<1>4. /\ \A p \in 1 .. Height(u) : ~ (p > m)
      /\ \A p \in 1 .. Height(u)' : ~ (p > m)
  BY <1>1, <1>2
<1>5. stack' \in [Worker -> Seq(FrameType)]
  BY DEF SchedulerInv, DataInv
<1>. QED
  BY <1>1, <1>2, <1>3, <1>4, <1>5, MatchKept DEF SchedulerInv, DequeInv, MatchInv

\* A job goes from a slot into the register of whoever takes it: nobody else has it.
LEMMA TakeStep ==
  ASSUME SchedulerInv, UNCHANGED control, DequeInv', NEW w \in Worker, NEW v \in Worker,
         NEW s \in Nat, Takes(w, v, s), \A u \in Worker \ {w} : reg'[u] = reg[u],
         reg'[w].at \in Holding, reg'[w].job = deq[v][s],
         v = w => reg[w].at \in Lowering /\ reg'[w].at = "returned",
         v # w => reg[w].at \in Reading
  PROVE  SchedulerInv'
<1>0. stack' = stack /\ stack \in [Worker -> Seq(FrameType)]
  BY DEF control, SchedulerInv, DataInv
<1>1. \A u \in Worker : Top(u)' = Top(u)
  BY <1>0 DEF Top
<1>2. DataInv' /\ StackInv' /\ RanInv'
  <2>1. DataInv /\ StackInv /\ RanInv
    BY DEF SchedulerInv
  <2>2. OnlyMoves
    BY <1>0, <2>1, AtMoves
  <2>3. KeepData /\ finishedFlag' = finishedFlag /\ finishedFlag' \in BOOLEAN
    BY <2>1 DEF control, KeepData, DataInv
  <2>. QED
    BY <2>1, <2>2, <2>3, MoveStacks
<1>3. RegSuits(w)
  BY Facts
<1>4. s \in Avail(v) /\ \A u \in Avail(v) : u \in Nat
  BY AvailNat DEF Takes, SchedulerInv
<1>5. ASSUME v = w
      PROVE  RegSuits(w)' /\ OwnInv' /\ MatchInv'
  <2>1. /\ Top(w).op = "do" /\ Top(w).at = "own" /\ deq[w][s] = RightJob(Top(w))
        /\ \A pos \in [Avail(w) -> 1 .. Height(w)] : Matches(w, pos) => pos[s] = Height(w)
        /\ \A u \in Avail(w) : u <= s
    <3>1. \A u \in Avail(w) : u <= s
      BY <1>5 DEF Takes
    <3>. QED
      BY <1>4, <1>5, <3>1, OwnerTakes
  <2>2. RegSuits(w)'
    BY <1>1, <1>5, <2>1 DEF RegSuits
  <2>3. OwnInv'
    <3>1. \A f : RightJob(f)' = RightJob(f)
      BY DEF RightJob, Mid
    <3>2. \A u \in Worker \ {w} : Avail(u)' = Avail(u)
      BY <1>5 DEF Takes
    <3>3. reg'[w].job = RightJob(Top(w)')
      BY <1>1, <1>5, <2>1
    <3>. QED
      BY <1>1, <3>1, <3>2, <3>3 DEF OwnInv, Answered, SchedulerInv
  <2>4. \A p \in 1 .. Height(w) : p # Height(w) => (Pending(w, p)' <=> Pending(w, p))
    <3>1. /\ \A p : F(w, p)' = F(w, p)
          /\ Height(w)' = Height(w)
      BY <1>0 DEF F, Height
    <3>. QED
      BY <3>1 DEF Pending
  <2>5. ~ Pending(w, Height(w))'
    <3>1. Top(w)' = F(w, Height(w))'
      BY <1>0, FrameTypes DEF Top, F, Height, SchedulerInv
    <3>2. F(w, Height(w))'.at = "own" /\ reg'[w].at = "returned"
      BY <1>1, <1>5, <2>1, <3>1
    <3>. QED
      BY <3>2 DEF Pending
  <2>6. Avail(w)' = Avail(w) \ {s} /\ deq' = deq
    BY <1>5 DEF Takes
  <2>7. \E pos \in [Avail(w)' -> 1 .. Height(w)'] : Matches(w, pos)'
    BY <1>0, <1>4, <1>5, <2>1, <2>4, <2>5, <2>6, TakeMatch
  <2>8. ASSUME NEW u \in Worker \ {w}
        PROVE  \E pos \in [Avail(u)' -> 1 .. Height(u)'] : Matches(u, pos)'
    <3>1. Avail(u)' = Avail(u)
      BY <1>5 DEF Takes
    <3>2. \A p : Pending(u, p)' <=> Pending(u, p)
      BY <1>0 DEF Pending, F, Height
    <3>. QED
      BY <1>0, <1>2, <2>6, <3>1, <3>2, SameMatch
  <2>. QED
    BY <2>2, <2>3, <2>7, <2>8 DEF MatchInv
<1>6. ASSUME v # w
      PROVE  RegSuits(w)' /\ OwnInv' /\ MatchInv'
  <2>1. Top(w).op \in {"do", "worker"} /\ Top(w).at = "stole"
    BY <1>3, <1>6 DEF RegSuits, Reading, Holding, Lowering
  <2>2. RegSuits(w)'
    BY <1>1, <2>1 DEF RegSuits
  <2>3. OwnInv'
    <3>1. \A f : RightJob(f)' = RightJob(f)
      BY DEF RightJob, Mid
    <3>2. \A u \in Worker : Avail(u) = {} => Avail(u)' = {}
      BY DEF Takes
    <3>. QED
      BY <1>1, <2>1, <3>1, <3>2 DEF OwnInv, Answered, SchedulerInv
  <2>4. ASSUME NEW u \in Worker, NEW p \in 1 .. Height(u)
        PROVE  Pending(u, p)' <=> Pending(u, p)
    <3>1. F(u, p)' = F(u, p) /\ Height(u)' = Height(u)
      BY <1>0 DEF F, Height
    <3>2. CASE u # w
      BY <3>1, <3>2 DEF Pending
    <3>3. CASE u = w
      <4>1. Top(w) = F(w, Height(w))
        BY Facts
      <4>. QED
        BY <2>1, <3>1, <3>3, <4>1 DEF Pending
    <3>. QED
      BY <3>2, <3>3
  <2>5. deq' = deq
    BY DEF Takes
  <2>6. ASSUME NEW u \in Worker
        PROVE  \E pos \in [Avail(u)' -> 1 .. Height(u)'] : Matches(u, pos)'
    <3>1. CASE u = v
      <4>1. Avail(v)' = Avail(v) \ {s} /\ \A x \in Avail(v) : s <= x
        BY <1>6 DEF Takes
      <4>. QED
        BY <1>0, <1>4, <2>4, <2>5, <3>1, <4>1, TakeMatch
    <3>2. CASE u # v
      <4>1. Avail(u)' = Avail(u)
        BY <3>2 DEF Takes
      <4>. QED
        BY <1>0, <1>2, <2>4, <2>5, <4>1, SameMatch
    <3>. QED
      BY <3>1, <3>2
  <2>. QED
    BY <2>2, <2>3, <2>6 DEF MatchInv
<1>7. RegInv'
  <2>1. \A u \in Worker \ {w} : RegSuits(u)'
    BY <1>1 DEF RegSuits, SchedulerInv, RegInv
  <2>. QED
    BY <1>5, <1>6, <2>1 DEF RegInv
<1>8. ShareInv' /\ JobInv'
  BY TakePlaces
<1>. QED
  BY <1>2, <1>5, <1>6, <1>7, <1>8 DEF SchedulerInv

\* pop_top's compare-and-swap wins the job or fails.
LEMMA TopSwapKeeps ==
  ASSUME SchedulerInv, NEW w \in Worker, D!TopSwap(w), UNCHANGED control
  PROVE  SchedulerInv'
<1>1. DequeInv' /\ \/ SameSlots /\ SameHeld
                   \/ \E v \in Worker \ {w} : \E s \in Nat : Takes(w, v, s)
  BY TopSwapStep DEF SchedulerInv
<1>2. DOMAIN reg = Worker
  BY Facts
<1>3. /\ reg[w].at \in Reading /\ reg'[w].at \in Holding
      /\ \A u \in Worker \ {w} : reg'[u] = reg[u]
  BY <1>2 DEF D!TopSwap, D!Goto, Holding, Reading
<1>4. CASE SameSlots /\ SameHeld
  BY <1>1, <1>3, <1>4, DequeMoves
<1>5. CASE \E v \in Worker \ {w} : \E s \in Nat : Takes(w, v, s)
  <2>1. PICK v \in Worker \ {w}, s \in Nat : Takes(w, v, s)
    BY <1>5
  <2>2. reg'[w].job = deq[v][s]
    <3>1. HeldJob(w)' = deq[v][s]
      BY <2>1 DEF Takes
    <3>. QED
      BY <1>3, <3>1 DEF HeldJob
  <2>. QED
    BY <1>1, <1>3, <2>1, <2>2, TakeStep
<1>. QED
  BY <1>1, <1>4, <1>5

\* pop_bottom takes a job that is not the last, or competes for the last.
LEMMA BottomTakesKeep ==
  ASSUME SchedulerInv, NEW w \in Worker, D!BottomReadAge(w) \/ D!BottomSwap(w), UNCHANGED control
  PROVE  SchedulerInv'
<1>1. /\ DequeInv'
      /\ \/ SameSlots /\ SameHeld /\ reg'[w].at \in Lowering
         \/ \E s \in Nat : Takes(w, w, s) /\ reg'[w] = D!Returned(deq[w][s])
      /\ \A u \in Worker \ {w} : reg'[u] = reg[u]
  BY BottomReadAgeStep, BottomSwapStep DEF SchedulerInv, Lowering
<1>2. reg[w].at \in Lowering
  BY DEF D!BottomReadAge, D!BottomSwap, Lowering
<1>3. CASE SameSlots /\ SameHeld /\ reg'[w].at \in Lowering
  BY <1>1, <1>2, <1>3, DequeMoves
<1>4. CASE \E s \in Nat : Takes(w, w, s) /\ reg'[w] = D!Returned(deq[w][s])
  <2>1. PICK s \in Nat : Takes(w, w, s) /\ reg'[w] = D!Returned(deq[w][s])
    BY <1>4
  <2>2. reg'[w].at = "returned" /\ reg'[w].job = deq[w][s]
    BY <2>1 DEF D!Returned
  <2>. QED
    BY <1>1, <1>2, <2>1, <2>2, TakeStep DEF Holding
<1>. QED
  BY <1>1, <1>3, <1>4

\* Every step inside a deque operation.
LEMMA DequeKeeps ==
  ASSUME SchedulerInv, NEW w \in Worker, D!DequeStep(w), UNCHANGED control
  PROVE  SchedulerInv'
  BY PushPublishKeeps, TopReadsKeep, TopSwapKeeps, BottomsKeep, BottomTakesKeep DEF D!DequeStep

-----------------------------------------------------------------------------
(* Calls and returns: steps of one worker that change only what is above   *)
(* the call under its innermost one.                                       *)

OneCall(w) ==
    /\ stack' \in [Worker -> Seq(FrameType)] /\ Others(w)
    /\ Kept(w, Height(w) - 1) /\ Len(stack'[w]) >= 1

\* The stacks, typed and in order.
LEMMA CallStacks ==
  ASSUME SchedulerInv, NEW w \in Worker, OneCall(w),
         granularity >= 1 => granularity' >= 1,
         \A i \in Start .. End - 1 : hits'[i] \in Nat /\ hits'[i] >= hits[i],
         \A p \in Height(w) .. Len(stack'[w]) :
            /\ FrameOK(After(w, p))
            /\ p = 1 => After(w, p).op \in {"main", "worker"}
            /\ After(w, p).op = "main" => w = Main /\ p = 1
            /\ After(w, p).op \in {"for", "do"} => granularity' >= 1,
         \A p \in 1 .. Height(w)' - 1 : p >= Height(w) - 1 => Called(F(w, p), F(w, p + 1))',
         Behind(F(w, Height(w)))',
         \A j \in done' : j \in done \/ Ran(j[1], j[2])',
         finishedFlag' = finishedFlag,
         finishedFlag => w # Main \/ Height(w) > 1
  PROVE  StackInv' /\ RanInv'
<1>1. DataInv /\ StackInv /\ RanInv
  BY DEF SchedulerInv
<1>2. \A v \in Worker : Height(v) \in Nat \ {0}
  BY <1>1, FrameTypes
<1>3. ASSUME NEW v \in Worker \ {w}
      PROVE  /\ Kept(v, Height(v)) /\ Len(stack'[v]) = Height(v) /\ Height(v)' = Height(v)
             /\ \A p : F(v, p)' = F(v, p)
  BY <1>2 DEF OneCall, Others, Kept, After, F, Height
<1>4. StackInv'
  <2>1. ASSUME NEW v \in Worker
        PROVE  \E m : /\ Kept(v, m) /\ Len(stack'[v]) >= 1
                      /\ \A p \in m + 1 .. Len(stack'[v]) :
                          /\ FrameOK(After(v, p))
                          /\ p = 1 => After(v, p).op \in {"main", "worker"}
                          /\ After(v, p).op = "main" => v = Main /\ p = 1
                          /\ After(v, p).op \in {"for", "do"} => granularity' >= 1
    <3>1. CASE v # w
      <4>1. \A p \in Height(v) + 1 .. Len(stack'[v]) : FALSE
        BY <1>2, <1>3, <3>1
      <4>. QED
        BY <1>2, <1>3, <3>1, <4>1
    <3>2. CASE v = w
      <4>1. PICK m : m = Height(w) - 1
        OBVIOUS
      <4>2. Kept(w, m) /\ Len(stack'[w]) >= 1 /\ m + 1 = Height(w)
        BY <1>2, <4>1 DEF OneCall
      <4>. QED
        BY <3>2, <4>2
    <3>. QED
      BY <3>1, <3>2
  <2>. QED
    BY <1>1, <2>1, StackKept DEF OneCall
<1>5. RanInv'
  <2>1. ASSUME NEW v \in Worker
        PROVE  \E m : /\ Kept(v, m)
                      /\ \A p \in 1 .. Height(v)' - 1 : p >= m => Called(F(v, p), F(v, p + 1))'
                      /\ Behind(F(v, Height(v)))'
    <3>1. CASE v # w
      <4>1. \A p \in 1 .. Height(v)' - 1 : ~ (p >= Height(v))
        BY <1>2, <1>3, <3>1
      <4>2. PICK g : g = F(v, Height(v))
        OBVIOUS
      <4>3. Behind(g)
        BY <1>1, <4>2 DEF RanInv
      <4>4. Behind(g)'
        BY <1>1, <4>3, RanGrows
      <4>5. F(v, Height(v))' = g
        BY <3>1, <4>2 DEF F, Height, OneCall, Others
      <4>6. Behind(F(v, Height(v)))'
        BY <4>4, <4>5
      <4>. QED
        BY <1>3, <3>1, <4>1, <4>6
    <3>2. CASE v = w
      <4>1. PICK m : m = Height(w) - 1
        OBVIOUS
      <4>2. Kept(w, m) /\ \A p \in 1 .. Height(w)' - 1 : p >= m => Called(F(w, p), F(w, p + 1))'
        BY <4>1 DEF OneCall
      <4>. QED
        BY <3>2, <4>2
    <3>. QED
      BY <3>1, <3>2
  <2>2. finishedFlag' => Ran(Start, End)' /\ F(Main, 1)'.at \in Final
    <3>1. finishedFlag' => Ran(Start, End)'
      BY <1>1, RanGrows DEF RanInv
    <3>2. Main \in Worker
      BY SchedulerAssumption
    <3>3. Main # w => F(Main, 1)' = F(Main, 1)
      BY <1>3, <3>2
    <3>4. Height(w) > 1 => F(w, 1)' = F(w, 1)
      BY <1>2, PrimedFrames DEF OneCall, Kept
    <3>. QED
      BY <1>1, <3>1, <3>3, <3>4 DEF RanInv
  <2>. QED
    BY <1>1, <2>1, <2>2, RanKept DEF OneCall
<1>. QED
  BY <1>4, <1>5

\* What the registers and the slots have to do with the stacks.
LEMMA CallMatch ==
  ASSUME SchedulerInv, NEW w \in Worker, OneCall(w), StackInv', SameSlots,
         \A u \in Worker \ {w} : reg'[u] = reg[u], reg'[w].at = "idle",
         Pending(w, Height(w)) =>
            /\ Height(w) <= Len(stack'[w])
            /\ After(w, Height(w)).op = "do" /\ After(w, Height(w)).at \in {"spawn", "own"}
            /\ RightJob(After(w, Height(w))) = RightJob(Top(w)),
         \A p \in Height(w) .. Len(stack'[w]) :
            /\ After(w, p).op = "do" /\ After(w, p).at \in {"spawn", "own"} =>
                  p = Height(w) /\ Pending(w, p)
            /\ Seeker(After(w, p)) => Avail(w) = {}
  PROVE  RegInv' /\ MatchInv' /\ OwnInv'
<1>1. DataInv /\ StackInv /\ MatchInv /\ DequeTypes
  BY DEF SchedulerInv, DequeInv
<1>2. \A u \in Worker \ {w} : Top(u)' = Top(u)
  BY DEF Top, OneCall, Others
<1>3. RegInv'
  <2>1. RegSuits(w)'
    BY DEF RegSuits
  <2>2. \A u \in Worker \ {w} : RegSuits(u)'
    BY <1>2 DEF RegSuits, SchedulerInv, RegInv
  <2>. QED
    BY <2>1, <2>2 DEF RegInv
<1>4. OwnInv'
  <2>1. \A f : RightJob(f)' = RightJob(f)
    BY DEF RightJob, Mid
  <2>. QED
    BY <1>2, <2>1 DEF OwnInv, Answered, SchedulerInv, SameSlots
<1>5. ASSUME NEW u \in Worker \ {w}
      PROVE  \E pos \in [Avail(u)' -> 1 .. Height(u)'] : Matches(u, pos)'
  <2>1. PICK m : m = Height(u)
    OBVIOUS
  <2>2. /\ m \in Nat \ {0} /\ Len(stack'[u]) = m /\ Height(u)' = m
        /\ \A p : After(u, p) = F(u, p) /\ F(u, p)' = F(u, p)
    BY <1>1, <2>1, FrameTypes DEF OneCall, Others, F, After, Height
  <2>3. Kept(u, m)
    BY <2>1, <2>2 DEF Kept
  <2>4. \A p \in 1 .. m : Pending(u, p)' <=> Pending(u, p)
    BY <2>1, <2>2 DEF Pending
  <2>5. /\ \A p \in 1 .. Height(u) : ~ (p > m)
        /\ \A p \in 1 .. Height(u)' : ~ (p > m)
    BY <2>1, <2>2
  <2>. QED
    BY <1>1, <2>3, <2>4, <2>5, MatchKept DEF MatchInv, OneCall, SameSlots
<1>6. \E pos \in [Avail(w)' -> 1 .. Height(w)'] : Matches(w, pos)'
  <2>1. PICK h : h = Height(w)
    OBVIOUS
  <2>2. PICK k : k = Len(stack'[w])
    OBVIOUS
  <2>3. PICK m : m = h - 1
    OBVIOUS
  <2>4. /\ h \in Nat \ {0} /\ k \in Nat \ {0} /\ Height(w)' = k
        /\ Kept(w, m) /\ Top(w) = F(w, h)
        /\ \A p \in 1 .. m : F(w, p)' = F(w, p)
        /\ \A p : F(w, p)' = After(w, p)
    BY <1>1, <2>1, <2>2, <2>3, FrameTypes, PrimedFrames DEF OneCall, Kept
  <2>5. \A p \in 1 .. m : Pending(w, p)' <=> Pending(w, p)
    BY <2>1, <2>3, <2>4 DEF Pending
  <2>6. \A p \in 1 .. Height(w) : p > m /\ Pending(w, p) =>
            /\ p <= Height(w)' /\ Pending(w, p)'
            /\ RightJob(After(w, p)) = RightJob(F(w, p))
    <3>1. SUFFICES ASSUME Pending(w, h)
                   PROVE  h <= k /\ Pending(w, h)' /\ RightJob(After(w, h)) = RightJob(F(w, h))
      <4>1. \A p \in 1 .. h : p > m => p = h
        BY <2>3, <2>4
      <4>. QED
        BY <2>1, <2>4, <4>1
    <3>2. /\ h <= k /\ After(w, h).op = "do" /\ After(w, h).at \in {"spawn", "own"}
          /\ RightJob(After(w, h)) = RightJob(F(w, h))
      BY <2>1, <2>2, <2>4, <3>1
    <3>3. Pending(w, h)'
      BY <2>4, <3>2 DEF Pending
    <3>. QED
      BY <3>2, <3>3
  <2>7. \A p \in 1 .. Height(w)' : p > m =>
            /\ Pending(w, p)' => p <= Height(w) /\ Pending(w, p)
            /\ Seeker(After(w, p)) => Avail(w) = {} \/ (p <= Height(w) /\ Seeker(F(w, p)))
    <3>1. ASSUME NEW p \in 1 .. k, p > m
          PROVE  /\ Pending(w, p)' => p <= h /\ Pending(w, p)
                 /\ Seeker(After(w, p)) => Avail(w) = {}
      <4>1. p \in h .. k
        BY <2>3, <2>4, <3>1
      <4>2. /\ After(w, p).op = "do" /\ After(w, p).at \in {"spawn", "own"} =>
                 p = h /\ Pending(w, p)
            /\ Seeker(After(w, p)) => Avail(w) = {}
        BY <2>1, <2>2, <4>1
      <4>3. Pending(w, p)' => After(w, p).op = "do" /\ After(w, p).at \in {"spawn", "own"}
        BY <2>4 DEF Pending
      <4>. QED
        BY <2>4, <4>1, <4>2, <4>3
    <3>. QED
      BY <2>1, <2>4, <3>1
  <2>. QED
    BY <1>1, <2>4, <2>5, <2>6, <2>7, MatchKept DEF MatchInv, OneCall, SameSlots
<1>7. MatchInv'
  BY <1>5, <1>6 DEF MatchInv
<1>. QED
  BY <1>3, <1>4, <1>7

\* Iterations and jobs of the other calls, of the slots and of the other workers stay.
LEMMA CallPlaces ==
  ASSUME SchedulerInv, NEW w \in Worker, OneCall(w)
  PROVE  /\ \A x \in Name :
              \/ JobOf(x)' = JobOf(x) /\ Share(x)' = Share(x)
              \/ \E p \in Nat : x = <<"frame", w, p>> /\ p >= Height(w)
              \/ \E v \in Worker : x = <<"held", v, 0>> /\ HeldJob(v)' # HeldJob(v)
              \/ \E v \in Worker, p \in Nat : x = <<"slot", v, p>> /\ SlotJob(v, p)' # SlotJob(v, p)
         /\ \A v \in Worker, p \in Nat : Waiting(v, p) =>
              \/ v = w /\ p = Height(w)
              \/ Waiting(v, p)' /\ RightJob(F(v, p)') = RightJob(F(v, p))
         /\ \A p \in Nat : p > Height(w) => FrameShare(w, p) = {} /\ FrameJob(w, p) = NoJob
<1>1. /\ DataInv /\ StackInv /\ stack' \in [Worker -> Seq(FrameType)]
      /\ Height(w) \in Nat \ {0} /\ Kept(w, Height(w) - 1)
      /\ \A v \in Worker \ {w} : stack'[v] = stack[v]
  BY FrameTypes DEF SchedulerInv, OneCall, Others
<1>2. ASSUME NEW v \in Worker, NEW p \in Nat
      PROVE  \/ v = w /\ p >= Height(w)
             \/ /\ FrameShare(v, p)' = FrameShare(v, p) /\ FrameJob(v, p)' = FrameJob(v, p)
                /\ Waiting(v, p)' <=> Waiting(v, p)
                /\ Waiting(v, p) => F(v, p)' = F(v, p)
  <2>1. CASE v # w
    BY <1>1, <2>1, PlacesKept
  <2>2. CASE v = w /\ p \in 1 .. Height(w) - 1
    BY <1>1, <2>2, PlacesKept
  <2>3. CASE p = 0
    BY <1>1, <2>3, PlacesKept DEF FrameShare, FrameJob, Waiting
  <2>. QED
    BY <1>1, <2>1, <2>2, <2>3
<1>3. ASSUME NEW x \in Name
      PROVE  \/ JobOf(x)' = JobOf(x) /\ Share(x)' = Share(x)
             \/ \E p \in Nat : x = <<"frame", w, p>> /\ p >= Height(w)
             \/ \E v \in Worker : x = <<"held", v, 0>> /\ HeldJob(v)' # HeldJob(v)
             \/ \E v \in Worker, p \in Nat : x = <<"slot", v, p>> /\ SlotJob(v, p)' # SlotJob(v, p)
  <2>1. PICK v \in Worker, p \in Nat :
           x = <<"frame", v, p>> \/ x = <<"slot", v, p>> \/ x = <<"held", v, 0>>
    BY Names
  <2>2. CASE x = <<"frame", v, p>>
    BY <1>2, <2>2, Names
  <2>3. CASE x = <<"slot", v, p>>
    BY <2>3, Names
  <2>4. CASE x = <<"held", v, 0>>
    BY <2>4, Names
  <2>. QED
    BY <2>1, <2>2, <2>3, <2>4
<1>4. ASSUME NEW v \in Worker, NEW p \in Nat, Waiting(v, p)
      PROVE  (v = w /\ p = Height(w)) \/ (Waiting(v, p)' /\ RightJob(F(v, p)') = RightJob(F(v, p)))
  <2>1. v = w => p <= Height(w)
    BY <1>1, <1>4 DEF Waiting
  <2>. QED
    BY <1>1, <1>2, <1>4, <2>1
<1>5. \A p \in Nat : p > Height(w) => FrameShare(w, p) = {} /\ FrameJob(w, p) = NoJob
  BY <1>1 DEF FrameShare, FrameJob
<1>. QED
  BY <1>3, <1>4, <1>5

\* No job is anywhere that was not there before.
LEMMA JobsStay ==
  ASSUME SchedulerInv,
         \A x \in Name : JobOf(x)' = JobOf(x) \/ JobOf(x)' = NoJob,
         \A j \in done' : j \in done \/ \A x \in Name : JobOf(x)' # j,
         \A v \in Worker, p \in Nat : Waiting(v, p) =>
            \/ Waiting(v, p)' /\ RightJob(F(v, p)') = RightJob(F(v, p))
            \/ \A x \in Name : JobOf(x)' # RightJob(F(v, p)),
         \A y \in Name : \E z \in Name : Share(y)' \subseteq Share(z)
  PROVE  JobInv'
<1>1. PICK b \in Name : b = <<"held", Main, 0>>
  BY Names, SchedulerAssumption
<1>2. \A x \in Name \ {b} : JobOf(x)' = JobOf(b)' => JobOf(b)' = NoJob
  <2>1. ASSUME NEW x \in Name \ {b}, JobOf(x)' = JobOf(b)', JobOf(b)' # NoJob PROVE FALSE
    <3>1. JobOf(x) = JobOf(b) /\ JobOf(b) # NoJob
      BY <2>1
    <3>. QED
      BY <3>1 DEF SchedulerInv, JobInv
  <2>. QED
    BY <2>1
<1>3. \A x \in Name : JobOf(x)' # NoJob => \E z \in Name : JobOf(z) = JobOf(x)'
  OBVIOUS
<1>4. \A x \in Name : x[1] = "frame" /\ JobOf(x)' # NoJob => JobOf(x)' = JobOf(x)
  OBVIOUS
<1>. QED
  BY <1>2, <1>3, <1>4, JobStep DEF SchedulerInv

\* The point where a pardo splits its range is a number inside it.
LEMMA MidNat ==
  ASSUME NEW f, FrameOK(f), f.op = "do"
  PROVE  /\ f.lo \in Nat /\ f.hi \in Nat /\ Mid(f) \in Nat
         /\ Start <= f.lo /\ f.lo < Mid(f) /\ Mid(f) < f.hi /\ f.hi <= End
<1>1. /\ f.lo \in Nat /\ f.hi \in Nat /\ Start <= f.lo /\ f.lo < Mid(f) /\ Mid(f) < f.hi
      /\ f.hi <= End
  BY DEF FrameOK, FrameType
<1>2. \A n \in Nat : n \div 16 \in Nat
  OBVIOUS
<1>3. 9 * (f.hi - f.lo + 1) \in Nat
  <2>1. f.hi - f.lo + 1 \in Nat
    BY <1>1 DEF Mid
  <2>. QED
    BY <2>1
<1>. QED
  BY <1>1, <1>2, <1>3 DEF Mid

\* When a call returns, what its caller was waiting for has been run.
LEMMA Returning ==
  ASSUME NEW g, NEW f, FrameOK(g), f \in FrameType, Called(g, f)',
         f.op \in {"for", "do"} => Ran(f.lo, f.hi)'
  PROVE  Behind(g)'
<1>1. g \in FrameType /\ g.lo \in Nat /\ g.hi \in Nat /\ f.lo \in Nat /\ f.hi \in Nat
  BY DEF FrameOK, FrameType
<1>2. g.op = "do" => Mid(g) \in Nat
  BY MidNat
<1>3. \A a, b, c \in Nat : Ran(a, b)' /\ Ran(b, c)' => Ran(a, c)'
  BY SchedulerAssumption DEF Ran
<1>4. CASE g.op = "main"
  <2>1. f.hi = End /\ Ran(Start, f.lo)' /\ Ran(f.lo, f.hi)'
    BY <1>4 DEF Called
  <2>2. Ran(Start, End)'
    BY <1>1, <1>3, <2>1, SchedulerAssumption
  <2>. QED
    BY <1>4, <2>2 DEF Behind
<1>5. CASE g.op = "do"
  <2>1. Mid(g)' = Mid(g)
    BY DEF Mid
  <2>2. /\ Ran(g.lo, Mid(g))'
        /\ g.at = "joined" => Ran(Mid(g), g.hi)'
    BY <1>5, <2>1 DEF Called
  <2>3. g.at = "joined" => Ran(g.lo, g.hi)'
    BY <1>1, <1>2, <1>3, <1>5, <2>2
  <2>. QED
    BY <1>5, <2>1, <2>2, <2>3 DEF Behind
<1>6. CASE g.op = "job"
  BY <1>6 DEF Called, Behind
<1>7. CASE g.op \in {"worker", "for"}
  BY <1>7 DEF Behind
<1>. QED
  BY <1>4, <1>5, <1>6, <1>7 DEF FrameOK

\* Running the body with a range of indices, or with none.
LEMMA HitSpan ==
  ASSUME DataInv, NEW lo \in Nat, NEW hi \in Nat, Hit(lo, hi)
  PROVE  /\ hits' \in [Start .. End - 1 -> Nat] /\ Ran(lo, hi)'
         /\ hits' = [i \in DOMAIN hits |-> hits[i] + IF i \in Span(lo, hi) THEN 1 ELSE 0]
<1>1. hits \in [Start .. End - 1 -> Nat] /\ DOMAIN hits = Start .. End - 1
  BY DEF DataInv
<1>2. \A i \in DOMAIN hits : i \in Span(lo, hi) <=> lo <= i /\ i < hi
  BY <1>1 DEF Span
<1>3. hits' = [i \in DOMAIN hits |-> hits[i] + IF i \in Span(lo, hi) THEN 1 ELSE 0]
  BY <1>2 DEF Hit
<1>4. \A i \in Start .. End - 1 : /\ hits'[i] = hits[i] + IF i \in Span(lo, hi) THEN 1 ELSE 0
                                  /\ hits[i] \in Nat
  BY <1>1, <1>3
<1>5. hits' \in [Start .. End - 1 -> Nat]
  BY <1>1, <1>3, <1>4
<1>6. Ran(lo, hi)'
  BY <1>1, <1>2, <1>4 DEF Ran
<1>. QED
  BY <1>3, <1>5, <1>6

\* A step that runs nothing adds nothing to hits.
LEMMA NoHit ==
  ASSUME DataInv, hits' = hits
  PROVE  /\ hits' \in [Start .. End - 1 -> Nat]
         /\ hits' = [i \in DOMAIN hits |-> hits[i] + IF i \in {} THEN 1 ELSE 0]
  BY DEF DataInv

\* Counts only grow.
LEMMA HitsGrow ==
  ASSUME DataInv, NEW I, hits' \in [Start .. End - 1 -> Nat],
         hits' = [i \in DOMAIN hits |-> hits[i] + IF i \in I THEN 1 ELSE 0]
  PROVE  \A i \in Start .. End - 1 : hits'[i] \in Nat /\ hits'[i] >= hits[i]
  BY DEF DataInv

\* A call that answers for nothing more returns to its caller.
LEMMA PopStep ==
  ASSUME SchedulerInv, NEW w \in Worker, reg[w] = D!Idle, Become(w, Under(w)), KeepReg,
         NEW f, f = Top(w),
         Top(w).op \in {"for", "job"} \/ (Top(w).op = "do" /\ Top(w).at = "joined"),
         UNCHANGED <<granularity, conservative, finishedFlag>>,
         hits' \in [Start .. End - 1 -> Nat],
         hits' = [i \in DOMAIN hits |->
                    hits[i] + IF i \in FrameSpan(Top(w)) THEN 1 ELSE 0],
         f.op = "for" => Ran(f.lo, f.hi)',
         \/ done' = done
         \/ Top(w).op = "job" /\ done' = done \cup {<<Top(w).lo, Top(w).hi>>}
  PROVE  SchedulerInv'
<1>a. PICK h : f = Top(w) /\ h = Height(w)
  OBVIOUS
<1>1. /\ f = F(w, h) /\ h \in Nat \ {0} /\ FrameOK(f) /\ Behind(f) /\ f \in FrameType
      /\ DataInv /\ StackInv /\ RanInv /\ DequeInv
  BY <1>a, Facts DEF SchedulerInv
<1>2. h > 1 /\ h - 1 \in 1 .. h /\ h - 1 \in 1 .. Height(w) - 1
  <2>1. F(w, 1).op \in {"main", "worker"}
    BY <1>1 DEF StackInv
  <2>2. h # 1
    BY <1>a, <1>1, <2>1
  <2>. QED
    BY <1>a, <1>1, <2>2
<1>3. /\ OneCall(w) /\ Len(stack'[w]) = h - 1 /\ Height(w)' = h - 1
      /\ \A p \in 1 .. h - 1 : F(w, p)' = F(w, p)
  <2>1. /\ stack' \in [Worker -> Seq(FrameType)] /\ Others(w)
        /\ Returns(w) /\ Kept(w, Height(w) - 1)
    BY <1>1, Shapes
  <2>. QED
    BY <1>a, <1>2, <2>1, PrimedFrames DEF OneCall, Returns, Kept
<1>4. \A i \in Start .. End - 1 : hits'[i] \in Nat /\ hits'[i] >= hits[i]
  <2>1. PICK I : I = FrameSpan(Top(w))
    OBVIOUS
  <2>. QED
    BY <1>1, <2>1, HitsGrow
<1>5. f.op \in {"for", "do"} => Ran(f.lo, f.hi)'
  <2>1. f.op = "do" => Ran(f.lo, f.hi)
    BY <1>a, <1>1 DEF Behind
  <2>. QED
    BY <1>a, <1>1, <1>4, <2>1, RanGrows
<1>6. Behind(F(w, Height(w)))'
  <2>1. PICK g : g = F(w, h - 1)
    OBVIOUS
  <2>2. FrameOK(g) /\ Called(g, f)
    <3>1. Called(F(w, h - 1), F(w, h - 1 + 1))
      BY <1>1, <1>2 DEF RanInv
    <3>2. h - 1 + 1 = h
      BY <1>1
    <3>. QED
      BY <1>a, <1>1, <1>2, <2>1, <3>1, <3>2 DEF StackInv
  <2>3. Called(g, f)'
    BY <1>1, <1>4, <2>2, RanGrows
  <2>4. Behind(g)'
    BY <1>1, <1>5, <2>2, <2>3, Returning
  <2>5. F(w, Height(w))' = g
    <3>1. F(w, Height(w))' = F(w, h - 1)'
      BY <1>3, PrimedFrames DEF F, Height
    <3>. QED
      BY <1>2, <1>3, <2>1, <3>1
  <2>. QED
    BY <2>4, <2>5
<1>7. StackInv' /\ RanInv'
  <2>1. \A p \in Height(w) .. Len(stack'[w]) : FALSE
    BY <1>a, <1>1, <1>3
  <2>2. \A p \in 1 .. Height(w)' - 1 : ~ (p >= Height(w) - 1)
    BY <1>a, <1>1, <1>3
  <2>3. \A j \in done' : j \in done \/ Ran(j[1], j[2])'
    <3>1. f.op = "job" => Ran(f.lo, f.hi)
      BY <1>1 DEF Behind
    <3>2. f.op = "job" => Ran(f.lo, f.hi)'
      BY <1>1, <1>4, <3>1, RanGrows
    <3>3. ASSUME NEW j \in done', j \notin done PROVE Ran(j[1], j[2])'
      <4>1. f.op = "job" /\ j = <<f.lo, f.hi>>
        BY <1>a, <3>3
      <4>. QED
        BY <3>2, <4>1
    <3>. QED
      BY <3>3
  <2>. QED
    BY <1>a, <1>2, <1>3, <1>4, <1>6, <2>1, <2>2, <2>3, CallStacks
<1>8. DequeInv' /\ SameSlots /\ SameHeld /\ reg' = reg /\ reg[w].at = "idle"
  BY <1>1, Registers DEF KeepReg, D!Idle
<1>9. RegInv' /\ MatchInv' /\ OwnInv'
  <2>1. ~ Pending(w, Height(w))
    BY <1>a, <1>1 DEF Pending
  <2>2. \A p \in Height(w) .. Len(stack'[w]) : FALSE
    BY <1>a, <1>1, <1>3
  <2>. QED
    BY <1>3, <1>7, <1>8, <2>1, <2>2, CallMatch
<1>b. PICK a : a = <<"frame", w, h>>
  OBVIOUS
<1>10. /\ a \in Name /\ a[1] = "frame" /\ JobOf(a)' = NoJob /\ Share(a)' = {}
       /\ Share(a) = FrameSpan(f) /\ JobOf(a) = IF f.op = "job" THEN <<f.lo, f.hi>> ELSE NoJob
  <2>1. FrameJob(w, h)' = NoJob /\ FrameShare(w, h)' = {}
    BY <1>1, <1>3 DEF FrameJob, FrameShare
  <2>2. /\ FrameShare(w, h) = FrameSpan(f)
        /\ FrameJob(w, h) = IF f.op = "job" THEN <<f.lo, f.hi>> ELSE NoJob
    BY <1>a, <1>1 DEF FrameJob, FrameShare
  <2>. QED
    BY <1>b, <1>1, <2>1, <2>2, Names
<1>11. \A x \in Name : x # a => JobOf(x)' = JobOf(x) /\ Share(x)' = Share(x)
  <2>1. ASSUME NEW x \in Name, x # a
        PROVE  JobOf(x)' = JobOf(x) /\ Share(x)' = Share(x)
    <3>1. \A v \in Worker : \A s : SlotJob(v, s)' = SlotJob(v, s)
      BY <1>8 DEF SameSlots, SlotJob
    <3>2. \A v \in Worker : HeldJob(v)' = HeldJob(v)
      BY <1>8 DEF SameHeld
    <3>3. \/ JobOf(x)' = JobOf(x) /\ Share(x)' = Share(x)
          \/ \E p \in Nat : x = <<"frame", w, p>> /\ p >= h
      BY <1>a, <1>3, <3>1, <3>2, CallPlaces
    <3>4. ASSUME NEW p \in Nat, x = <<"frame", w, p>>, p >= h
          PROVE  JobOf(x)' = JobOf(x) /\ Share(x)' = Share(x)
      <4>1. p > h
        BY <1>b, <1>1, <2>1, <3>4
      <4>2. FrameShare(w, p) = {} /\ FrameJob(w, p) = NoJob
        BY <1>a, <1>3, <4>1, CallPlaces
      <4>3. FrameShare(w, p)' = {} /\ FrameJob(w, p)' = NoJob
        BY <1>1, <1>3, <4>1 DEF FrameShare, FrameJob
      <4>4. JobOf(x)' = FrameJob(w, p)' /\ JobOf(x) = FrameJob(w, p)
        BY <3>4, Names
      <4>5. Share(x)' = FrameShare(w, p)' /\ Share(x) = FrameShare(w, p)
        BY <3>4, Names
      <4>. QED
        BY <4>2, <4>3, <4>4, <4>5
    <3>. QED
      BY <3>3, <3>4
  <2>. QED
    BY <2>1
<1>12. ShareInv'
  <2>1. PICK I : I = FrameSpan(f)
    OBVIOUS
  <2>2. hits' = [i \in DOMAIN hits |-> hits[i] + IF i \in I THEN 1 ELSE 0]
    BY <1>a, <2>1
  <2>3. /\ \A x \in Name \ {a} : Share(x)' \subseteq Share(x)
        /\ Share(a)' \subseteq Share(a) \cup Share(a)
        /\ I \subseteq Share(a) /\ Share(a)' \cap I = {}
    BY <1>10, <1>11, <2>1
  <2>. QED
    BY <1>1, <1>10, <2>2, <2>3, ShareStep DEF SchedulerInv
<1>13. JobInv'
  <2>1. \A x \in Name : JobOf(x)' = JobOf(x) \/ JobOf(x)' = NoJob
    BY <1>10, <1>11
  <2>2. \A j \in done' : j \in done \/ \A x \in Name : JobOf(x)' # j
    <3>1. ASSUME NEW j \in done', j \notin done, NEW x \in Name, JobOf(x)' = j PROVE FALSE
      <4>1. f.op = "job" /\ j = <<f.lo, f.hi>>
        BY <1>a, <3>1
      <4>2. JobOf(a) = j /\ j # NoJob
        BY <1>1, <1>10, <4>1, DequesAssumption DEF FrameOK, D!DequeAssumption
      <4>3. x # a /\ JobOf(x) = j
        BY <1>10, <1>11, <3>1, <4>2
      <4>. QED
        BY <1>10, <4>2, <4>3 DEF SchedulerInv, JobInv
    <3>. QED
      BY <3>1
  <2>3. \A v \in Worker, p \in Nat : Waiting(v, p) =>
           Waiting(v, p)' /\ RightJob(F(v, p)') = RightJob(F(v, p))
    <3>1. ~ Waiting(w, h)
      BY <1>a, <1>1 DEF Waiting
    <3>. QED
      BY <1>a, <1>3, <3>1, CallPlaces
  <2>4. \A y \in Name : \E z \in Name : Share(y)' \subseteq Share(z)
    BY <1>10, <1>11
  <2>. QED
    BY <2>1, <2>2, <2>3, <2>4, JobsStay
<1>14. DataInv'
  <2>1. done' \subseteq Ranges
    BY <1>a, <1>1 DEF FrameOK, DataInv
  <2>. QED
    BY <1>1, <1>3, <2>1 DEF DataInv, OneCall
<1>. QED
  BY <1>7, <1>8, <1>9, <1>12, <1>13, <1>14 DEF SchedulerInv

\* A range no longer than the granularity is run on the spot.
LEMMA ForRunKeeps ==
  ASSUME SchedulerInv, NEW w \in Worker, ForRun(w)
  PROVE  SchedulerInv'
<1>a. PICK f : f = Top(w)
  OBVIOUS
<1>1. f.op = "for" /\ reg[w] = D!Idle /\ f.lo \in Nat /\ f.hi \in Nat
  BY <1>a, Facts DEF ForRun, In, FrameType
<1>2. /\ hits' \in [Start .. End - 1 -> Nat] /\ Ran(f.lo, f.hi)'
      /\ hits' = [i \in DOMAIN hits |-> hits[i] + IF i \in Span(f.lo, f.hi) THEN 1 ELSE 0]
  <2>1. PICK lo \in Nat, hi \in Nat : lo = f.lo /\ hi = f.hi
    BY <1>1
  <2>2. Hit(lo, hi)
    BY <1>a, <2>1 DEF ForRun
  <2>. QED
    BY <2>1, <2>2, HitSpan DEF SchedulerInv
<1>3. FrameSpan(Top(w)) = Span(f.lo, f.hi)
  BY <1>a, <1>1 DEF FrameSpan
<1>. QED
  BY <1>a, <1>1, <1>2, <1>3, PopStep DEF ForRun

\* pardo returns when both halves have been run; a job that was run becomes done.
LEMMA JoinKeeps ==
  ASSUME SchedulerInv, NEW w \in Worker, Join(w) \/ FinishJob(w)
  PROVE  SchedulerInv'
<1>1. /\ Top(w).op = "job" \/ (Top(w).op = "do" /\ Top(w).at = "joined")
      /\ reg[w] = D!Idle /\ Become(w, Under(w)) /\ KeepReg /\ hits' = hits
      /\ UNCHANGED <<granularity, conservative, finishedFlag>>
      /\ \/ done' = done
         \/ Top(w).op = "job" /\ done' = done \cup {<<Top(w).lo, Top(w).hi>>}
  BY DEF Join, FinishJob, In, KeepRest
<1>2. FrameSpan(Top(w)) = {}
  BY <1>1 DEF FrameSpan
<1>. QED
  BY <1>1, <1>2, NoHit, PopStep DEF SchedulerInv

\* The innermost call e, now f, calls parfor_ as g, with iterations that it answered for
\* itself or whose job it held; some of them, I, are run at once.
LEMMA LoopStep ==
  ASSUME SchedulerInv, NEW w \in Worker, NEW e, NEW f, NEW g, e = Top(w),
         FrameOK(f), FrameOK(g), Become(w, Two(stack[w], f, g)),
         g.op = "for", f.op = e.op, f.lo = e.lo, f.hi = e.hi,
         \/ f.op = "main" /\ f.at = "returned"
         \/ f.op = "do" /\ f.at \in {"own", "joined"} /\ e.at # "joined",
         DequeInv', SameSlots, reg'[w].at = "idle",
         \A u \in Worker \ {w} : reg'[u] = reg[u],
         \A u \in Worker : \/ HeldJob(u)' = HeldJob(u)
                           \/ u = w /\ HeldJob(u)' = NoJob,
         granularity' \in Nat, granularity' >= 1,
         UNCHANGED <<done, conservative, finishedFlag>>,
         NEW I, hits' \in [Start .. End - 1 -> Nat],
         hits' = [i \in DOMAIN hits |-> hits[i] + IF i \in I THEN 1 ELSE 0],
         NEW h, h = Height(w), NEW a, a = <<"frame", w, h>> \/ a = <<"held", w, 0>>,
         a = <<"held", w, 0>> => HeldJob(w)' = NoJob,
         Span(g.lo, g.hi) \subseteq Share(a), I \subseteq Share(a),
         Span(g.lo, g.hi) \cap I = {},
         Called(f, g)',
         finishedFlag => w # Main \/ h > 1,
         Pending(w, h) <=> f.at = "own",
         f.at = "joined" => HeldJob(w) = RightJob(e) /\ HeldJob(w)' = NoJob
  PROVE  SchedulerInv'
<1>1. /\ e = F(w, h) /\ h \in Nat \ {0} /\ FrameOK(e) /\ e \in FrameType
      /\ f \in FrameType /\ g \in FrameType
      /\ DataInv /\ StackInv /\ RanInv /\ DequeInv
      /\ e.op = "main" => w = Main /\ h = 1
  BY Facts DEF SchedulerInv, FrameOK
<1>2. /\ OneCall(w) /\ Len(stack'[w]) = h + 1 /\ Height(w)' = h + 1
      /\ After(w, h) = f /\ After(w, h + 1) = g
      /\ F(w, h)' = f /\ F(w, h + 1)' = g
      /\ Kept(w, h - 1) /\ \A p \in 1 .. h - 1 : F(w, p)' = F(w, p)
  <2>1. /\ stack' \in [Worker -> Seq(FrameType)] /\ Others(w)
        /\ Calls(w, f, g) /\ Kept(w, Height(w) - 1)
    BY <1>1, Shapes
  <2>. QED
    BY <1>1, <2>1, PrimedFrames DEF OneCall, Calls, Kept
<1>3. \A i \in Start .. End - 1 : hits'[i] \in Nat /\ hits'[i] >= hits[i]
  BY <1>1, HitsGrow
<1>4. \A p \in Height(w) .. Len(stack'[w]) : p = h \/ p = h + 1
  BY <1>1, <1>2
<1>5. StackInv' /\ RanInv'
  <2>1. ASSUME NEW p \in Height(w) .. Len(stack'[w])
        PROVE  /\ FrameOK(After(w, p))
               /\ p = 1 => After(w, p).op \in {"main", "worker"}
               /\ After(w, p).op = "main" => w = Main /\ p = 1
               /\ After(w, p).op \in {"for", "do"} => granularity' >= 1
    <3>1. CASE p = h
      <4>1. h = 1 => e.op \in {"main", "worker"}
        BY <1>1 DEF StackInv
      <4>. QED
        BY <1>1, <1>2, <3>1, <4>1
    <3>2. CASE p = h + 1
      BY <1>1, <1>2, <3>2
    <3>. QED
      BY <1>4, <3>1, <3>2
  <2>2. \A p \in 1 .. Height(w)' - 1 : p >= Height(w) - 1 => Called(F(w, p), F(w, p + 1))'
    <3>1. ASSUME NEW p \in 1 .. h, p >= h - 1 PROVE Called(F(w, p), F(w, p + 1))'
      <4>1. CASE p = h
        <5>1. f = F(w, p)' /\ g = F(w, p + 1)'
          BY <1>2, <4>1
        <5>. QED
          BY <5>1
      <4>2. CASE p = h - 1
        <5>1. PICK d : d = F(w, h - 1)
          OBVIOUS
        <5>2. Called(d, e)
          <6>1. h - 1 \in 1 .. Height(w) - 1 /\ h - 1 + 1 = h
            BY <1>1, <3>1, <4>2
          <6>. QED
            BY <1>1, <5>1, <6>1 DEF RanInv
        <5>3. Called(d, f)
          BY <5>2 DEF Called
        <5>4. Called(d, f)'
          BY <1>1, <1>3, <5>3, RanGrows
        <5>5. d = F(w, p)' /\ f = F(w, p + 1)'
          <6>1. h - 1 + 1 = h /\ h - 1 \in 1 .. h - 1
            BY <1>1, <3>1, <4>2
          <6>. QED
            BY <1>2, <4>2, <5>1, <6>1
        <5>. QED
          BY <5>4, <5>5
      <4>. QED
        BY <1>1, <3>1, <4>1, <4>2
    <3>. QED
      BY <1>1, <1>2, <3>1
  <2>3. Behind(F(w, Height(w)))'
    <3>1. Behind(g)'
      BY DEF Behind
    <3>2. F(w, Height(w))' = g
      <4>1. F(w, Height(w))' = F(w, h + 1)'
        BY <1>2, PrimedFrames DEF F, Height
      <4>. QED
        BY <1>2, <4>1
    <3>. QED
      BY <3>1, <3>2
  <2>. QED
    BY <1>1, <1>2, <1>3, <2>1, <2>2, <2>3, CallStacks
<1>6. RegInv' /\ MatchInv' /\ OwnInv'
  <2>1. Pending(w, Height(w)) =>
            /\ Height(w) <= Len(stack'[w])
            /\ After(w, Height(w)).op = "do" /\ After(w, Height(w)).at \in {"spawn", "own"}
            /\ RightJob(After(w, Height(w))) = RightJob(Top(w))
    <3>1. RightJob(f) = RightJob(e)
      BY DEF RightJob, Mid
    <3>. QED
      BY <1>1, <1>2, <3>1
  <2>2. ASSUME NEW p \in Height(w) .. Len(stack'[w])
        PROVE  /\ After(w, p).op = "do" /\ After(w, p).at \in {"spawn", "own"} =>
                     p = Height(w) /\ Pending(w, p)
               /\ Seeker(After(w, p)) => Avail(w) = {}
    BY <1>2, <1>4 DEF Seeker, Seeking
  <2>. QED
    BY <1>2, <1>5, <2>1, <2>2, CallMatch
<1>a. PICK b, c : b = <<"frame", w, h + 1>> /\ c = <<"frame", w, h>>
  OBVIOUS
<1>7. /\ b \in Name /\ c \in Name /\ b # c /\ a \in Name /\ a # b
      /\ JobOf(b)' = NoJob /\ Share(b)' = Span(g.lo, g.hi) /\ JobOf(b) = NoJob /\ Share(b) = {}
      /\ JobOf(c)' = NoJob /\ JobOf(c) = NoJob /\ Share(c)' = {}
  <2>1. b \in Name /\ c \in Name /\ b # c /\ a \in Name /\ a # b
    <3>1. h + 1 \in Nat /\ h + 1 # h
      BY <1>1
    <3>2. b # c
      BY <1>a, <3>1
    <3>3. a # b
      BY <1>a, <3>2
    <3>. QED
      BY <1>a, <1>1, <3>1, <3>2, <3>3, Names
  <2>2. FrameSpan(f)' = {} /\ FrameSpan(g)' = Span(g.lo, g.hi)
    BY DEF FrameSpan, Span
  <2>3. stack' \in [Worker -> Seq(FrameType)]
    BY <1>2 DEF OneCall
  <2>4. FrameJob(w, h + 1)' = NoJob /\ FrameShare(w, h + 1)' = Span(g.lo, g.hi)
    BY <1>1, <1>2, <2>2 DEF FrameJob, FrameShare
  <2>5. FrameJob(w, h)' = NoJob /\ FrameShare(w, h)' = {} /\ FrameJob(w, h) = NoJob
    BY <1>1, <1>2, <2>2 DEF FrameJob, FrameShare
  <2>6. FrameJob(w, h + 1) = NoJob /\ FrameShare(w, h + 1) = {}
    BY <1>1 DEF FrameJob, FrameShare
  <2>. QED
    BY <1>a, <2>1, <2>4, <2>5, <2>6, Names
<1>b. PICK d : d = <<"held", w, 0>>
  OBVIOUS
<1>8. \A x \in Name : x # b /\ x # c =>
         \/ JobOf(x)' = JobOf(x) /\ Share(x)' = Share(x)
         \/ x = d /\ JobOf(x)' = NoJob /\ Share(x)' = {}
  <2>1. ASSUME NEW x \in Name, x # b, x # c
        PROVE  \/ JobOf(x)' = JobOf(x) /\ Share(x)' = Share(x)
               \/ x = d /\ JobOf(x)' = NoJob /\ Share(x)' = {}
    <3>1. \A v \in Worker : \A s : SlotJob(v, s)' = SlotJob(v, s)
      BY DEF SameSlots, SlotJob
    <3>2. \/ JobOf(x)' = JobOf(x) /\ Share(x)' = Share(x)
          \/ \E p \in Nat : x = <<"frame", w, p>> /\ p >= h
          \/ x = d /\ HeldJob(w)' = NoJob
      BY <1>b, <1>2, <3>1, CallPlaces
    <3>3. ASSUME NEW p \in Nat, x = <<"frame", w, p>>, p >= h
          PROVE  JobOf(x)' = JobOf(x) /\ Share(x)' = Share(x)
      <4>1. p > h + 1
        BY <1>a, <1>1, <2>1, <3>3
      <4>2. FrameShare(w, p) = {} /\ FrameJob(w, p) = NoJob
        BY <1>1, <4>1 DEF FrameShare, FrameJob
      <4>3. FrameShare(w, p)' = {} /\ FrameJob(w, p)' = NoJob
        BY <1>1, <1>2, <4>1 DEF FrameShare, FrameJob
      <4>4. JobOf(x)' = FrameJob(w, p)' /\ JobOf(x) = FrameJob(w, p)
        BY <3>3, Names
      <4>5. Share(x)' = FrameShare(w, p)' /\ Share(x) = FrameShare(w, p)
        BY <3>3, Names
      <4>. QED
        BY <4>2, <4>3, <4>4, <4>5
    <3>4. ASSUME x = d, HeldJob(w)' = NoJob
          PROVE  JobOf(x)' = NoJob /\ Share(x)' = {}
      <4>1. JobSpan(NoJob) = {}
        BY DEF JobSpan
      <4>. QED
        BY <1>b, <3>4, <4>1, Names
    <3>. QED
      BY <3>2, <3>3, <3>4
  <2>. QED
    BY <2>1
<1>9. ShareInv'
  <2>1. Share(a)' = {}
    <3>1. CASE a = c
      BY <1>7, <3>1
    <3>2. CASE a = d
      <4>1. JobSpan(NoJob) = {}
        BY DEF JobSpan
      <4>. QED
        BY <1>b, <3>2, <4>1, Names
    <3>. QED
      BY <1>a, <1>b, <3>1, <3>2
  <2>2. /\ \A x \in Name \ {b} : Share(x)' \subseteq Share(x)
        /\ Share(b)' \subseteq Share(b) \cup Share(a)
        /\ a # b => Share(a)' \cap Share(b)' = {}
        /\ Share(a)' \cap I = {} /\ Share(b)' \cap I = {}
    BY <1>7, <1>8, <2>1
  <2>. QED
    BY <1>1, <1>7, <2>2, ShareStep DEF SchedulerInv
<1>10. JobInv'
  <2>1. \A x \in Name : JobOf(x)' = JobOf(x) \/ JobOf(x)' = NoJob
    BY <1>7, <1>8
  <2>2. ASSUME NEW v \in Worker, NEW p \in Nat, Waiting(v, p)
        PROVE  \/ Waiting(v, p)' /\ RightJob(F(v, p)') = RightJob(F(v, p))
               \/ \A x \in Name : JobOf(x)' # RightJob(F(v, p))
    <3>1. CASE v = w /\ p = h
      <4>1. e.op = "do" /\ RightJob(f) = RightJob(e) /\ RightJob(e) # NoJob
        BY <1>1, <2>2, <3>1, Facts DEF Waiting, RightJob, Mid
      <4>2. CASE f.at = "own"
        <5>1. Waiting(w, h)'
          BY <1>1, <1>2, <4>1, <4>2 DEF Waiting
        <5>. QED
          BY <1>1, <1>2, <3>1, <4>1, <5>1
      <4>3. CASE f.at = "joined"
        <5>1. d \in Name /\ JobOf(d) = RightJob(e) /\ JobOf(d)' = NoJob
          BY <1>b, <4>3, Names
        <5>2. \A x \in Name : JobOf(x)' # RightJob(e)
          <6>1. ASSUME NEW x \in Name, JobOf(x)' = RightJob(e) PROVE FALSE
            <7>1. JobOf(x) = RightJob(e) /\ x # d
              BY <2>1, <4>1, <5>1, <6>1
            <7>. QED
              BY <4>1, <5>1, <7>1 DEF SchedulerInv, JobInv
          <6>. QED
            BY <6>1
        <5>. QED
          BY <1>1, <3>1, <5>2
      <4>. QED
        BY <4>1, <4>2, <4>3
    <3>2. CASE ~ (v = w /\ p = h)
      BY <1>2, <2>2, <3>2, CallPlaces
    <3>. QED
      BY <3>1, <3>2
  <2>3. \A y \in Name : \E z \in Name : Share(y)' \subseteq Share(z)
    BY <1>7, <1>8
  <2>4. \A j \in done' : j \in done
    OBVIOUS
  <2>. QED
    BY <2>1, <2>2, <2>3, <2>4, JobsStay
<1>11. DataInv'
  BY <1>1, <1>2 DEF DataInv, OneCall
<1>. QED
  BY <1>5, <1>6, <1>9, <1>10, <1>11 DEF SchedulerInv

\* pardo goes on with its left half.
LEMMA RunLeftKeeps ==
  ASSUME SchedulerInv, NEW w \in Worker, RunLeft(w)
  PROVE  SchedulerInv'
<1>a. PICK e, h : e = Top(w) /\ h = Height(w)
  OBVIOUS
<1>b. PICK f, g : f = [e EXCEPT !.at = "own"] /\ g = Frame("for", e.lo, Mid(e), "enter")
  OBVIOUS
<1>1. /\ e.op = "do" /\ e.at = "spawn" /\ reg[w].at = "returned"
      /\ Consume(w) /\ bot' = bot /\ age' = age /\ deq' = deq
      /\ UNCHANGED <<done, hits, granularity, conservative, finishedFlag>>
      /\ Become(w, Two(stack[w], f, g))
  BY <1>a, <1>b DEF RunLeft, Answered, KeepDeques, KeepRest, Two, At, Under
<1>2. /\ e = F(w, h) /\ h \in Nat \ {0} /\ FrameOK(e) /\ e \in FrameType
      /\ granularity >= 1 /\ granularity \in Nat /\ RegSuits(w)
      /\ e.op = "main" => w = Main /\ h = 1
  BY <1>a, <1>1, Facts DEF SchedulerInv, DataInv
<1>3. reg[w].job = NoJob
  BY <1>a, <1>1, <1>2 DEF RegSuits, Holding, Lowering, Reading
<1>4. /\ DequeInv' /\ SameSlots /\ reg'[w].at = "idle"
      /\ \A u \in Worker \ {w} : reg'[u] = reg[u] /\ HeldJob(u)' = HeldJob(u)
      /\ HeldJob(w)' = HeldJob(w)
  BY <1>1, <1>3, Registers DEF SchedulerInv
<1>5. /\ f \in FrameType /\ f.op = "do" /\ f.at = "own" /\ f.lo = e.lo /\ f.hi = e.hi
  BY <1>b, <1>1, <1>2 DEF FrameType, Ats, Pardos
<1>6. Mid(f) = Mid(e) /\ e.lo \in Nat /\ e.hi \in Nat /\ Mid(e) \in Nat
      /\ Start <= e.lo /\ e.lo < Mid(e) /\ Mid(e) < e.hi /\ e.hi <= End
  BY <1>1, <1>2, <1>5, MidNat DEF Mid
<1>7. FrameOK(f) /\ FrameOK(g) /\ g.op = "for" /\ g.lo = e.lo /\ g.hi = Mid(e)
  <2>1. g \in FrameType
    BY <1>b, <1>6 DEF FrameType, Frame, Ops, Ats
  <2>2. g.op = "for" /\ g.lo = e.lo /\ g.hi = Mid(e) /\ g.at = "enter"
    BY <1>b DEF Frame
  <2>3. FrameOK(g)
    BY <1>6, <2>1, <2>2, SchedulerAssumption DEF FrameOK
  <2>4. FrameOK(f)
    BY <1>5, <1>6 DEF FrameOK, Pardos
  <2>. QED
    BY <2>2, <2>3, <2>4
<1>8. Called(f, g)'
  <2>1. Mid(f)' = Mid(e)
    BY <1>6 DEF Mid
  <2>. QED
    BY <1>5, <1>7, <2>1 DEF Called
<1>9. Pending(w, h)
  BY <1>1, <1>2 DEF Pending
<1>10. PICK a : a = <<"frame", w, h>>
  OBVIOUS
<1>11. Share(a) = Span(g.lo, g.hi)
  BY <1>a, <1>1, <1>2, <1>7, <1>10, Names DEF FrameShare, FrameSpan
<1>12. PICK I : I = {}
  OBVIOUS
<1>13. /\ hits' \in [Start .. End - 1 -> Nat]
       /\ hits' = [i \in DOMAIN hits |-> hits[i] + IF i \in I THEN 1 ELSE 0]
  BY <1>1, <1>12, NoHit DEF SchedulerInv
<1>14. h = 1 => w # Main \/ ~ finishedFlag
  BY <1>1, <1>2 DEF SchedulerInv, StackInv
<1>15. I \subseteq Share(a) /\ Span(g.lo, g.hi) \cap I = {} /\ Span(g.lo, g.hi) \subseteq Share(a)
  BY <1>11, <1>12
<1>. QED
  <2>1. \A u \in Worker : HeldJob(u)' = HeldJob(u)
    BY <1>4
  <2>2. finishedFlag => w # Main \/ h > 1
    BY <1>2, <1>14
  <2>3. a # <<"held", w, 0>>
    BY <1>10
  <2>4. granularity' \in Nat /\ granularity' >= 1
    BY <1>1, <1>2
  <2>5. \A u \in Worker \ {w} : reg'[u] = reg[u]
    BY <1>4
  <2>. QED
    <3>1. /\ e = Top(w) /\ g.op = "for" /\ f.op = e.op /\ f.lo = e.lo /\ f.hi = e.hi
          /\ \/ f.op = "main" /\ f.at = "returned"
             \/ f.op = "do" /\ f.at \in {"own", "joined"} /\ e.at # "joined"
          /\ f.at = "joined" => HeldJob(w) = RightJob(e) /\ HeldJob(w)' = NoJob
      BY <1>a, <1>1, <1>5, <1>7
    <3>2. /\ FrameOK(f) /\ FrameOK(g) /\ Become(w, Two(stack[w], f, g))
          /\ DequeInv' /\ SameSlots /\ reg'[w].at = "idle"
          /\ UNCHANGED <<done, conservative, finishedFlag>>
      BY <1>1, <1>4, <1>7
    <3>3. \A u \in Worker : \/ HeldJob(u)' = HeldJob(u)
                            \/ u = w /\ HeldJob(u)' = NoJob
      BY <2>1
    <3>4. /\ h = Height(w)
          /\ Pending(w, h) <=> f.at = "own"
          /\ finishedFlag => w # Main \/ h > 1
      BY <1>a, <1>5, <1>9, <2>2
    <3>5. /\ a = <<"frame", w, h>> \/ a = <<"held", w, 0>>
          /\ a = <<"held", w, 0>> => HeldJob(w)' = NoJob
      BY <1>10, <2>3
    <3>6. Span(g.lo, g.hi) \subseteq Share(a) /\ I \subseteq Share(a) /\ Span(g.lo, g.hi) \cap I = {}
      BY <1>15
    <3>7. UNCHANGED <<done, conservative, finishedFlag>>
      BY <3>2
    <3>. QED
      BY <1>8, <1>13, <2>4, <2>5, <3>1, <3>2, <3>3, <3>4, <3>5, <3>6, <3>7, LoopStep, ZenonT(60)

\* pardo got its right half back and runs it.
LEMMA RunRightKeeps ==
  ASSUME SchedulerInv, NEW w \in Worker, RunRight(w)
  PROVE  SchedulerInv'
<1>a. PICK e, h : e = Top(w) /\ h = Height(w)
  OBVIOUS
<1>b. PICK f, g : f = [e EXCEPT !.at = "joined"] /\ g = Frame("for", Mid(e), e.hi, "enter")
  OBVIOUS
<1>1. /\ e.op = "do" /\ e.at = "own" /\ reg[w].at = "returned" /\ reg[w].job # NoJob
      /\ Consume(w) /\ bot' = bot /\ age' = age /\ deq' = deq
      /\ UNCHANGED <<done, hits, granularity, conservative, finishedFlag>>
      /\ Become(w, Two(stack[w], f, g))
  BY <1>a, <1>b DEF RunRight, Answered, KeepDeques, KeepRest, Two, At, Under
<1>2. /\ e = F(w, h) /\ h \in Nat \ {0} /\ FrameOK(e) /\ e \in FrameType /\ Behind(e)
      /\ granularity >= 1 /\ granularity \in Nat
      /\ e.op = "main" => w = Main /\ h = 1
  BY <1>a, <1>1, Facts DEF SchedulerInv, DataInv
<1>3. reg[w].job = RightJob(e) /\ RightJob(e) # NoJob
  BY <1>a, <1>1, Facts DEF SchedulerInv, OwnInv, Answered
<1>4. /\ DequeInv' /\ SameSlots /\ reg'[w].at = "idle"
      /\ \A u \in Worker \ {w} : reg'[u] = reg[u] /\ HeldJob(u)' = HeldJob(u)
      /\ HeldJob(w)' = NoJob /\ HeldJob(w) = RightJob(e)
  BY <1>1, <1>3, Registers DEF SchedulerInv
<1>5. /\ f \in FrameType /\ f.op = "do" /\ f.at = "joined" /\ f.lo = e.lo /\ f.hi = e.hi
  BY <1>b, <1>1, <1>2 DEF FrameType, Ats, Pardos
<1>6. Mid(f) = Mid(e) /\ e.lo \in Nat /\ e.hi \in Nat /\ Mid(e) \in Nat
      /\ Start <= e.lo /\ e.lo < Mid(e) /\ Mid(e) < e.hi /\ e.hi <= End
  BY <1>1, <1>2, <1>5, MidNat DEF Mid
<1>7. FrameOK(f) /\ FrameOK(g) /\ g.op = "for" /\ g.lo = Mid(e) /\ g.hi = e.hi
  <2>1. g \in FrameType
    BY <1>b, <1>6 DEF FrameType, Frame, Ops, Ats
  <2>2. g.op = "for" /\ g.lo = Mid(e) /\ g.hi = e.hi /\ g.at = "enter"
    BY <1>b DEF Frame
  <2>3. FrameOK(g)
    BY <1>6, <2>1, <2>2, SchedulerAssumption DEF FrameOK
  <2>4. FrameOK(f)
    BY <1>5, <1>6 DEF FrameOK, Pardos
  <2>. QED
    BY <2>2, <2>3, <2>4
<1>8. Called(f, g)'
  <2>1. Mid(f)' = Mid(e)
    BY <1>6 DEF Mid
  <2>2. PICK m : m = Mid(e)
    OBVIOUS
  <2>3. Ran(e.lo, m)
    BY <1>1, <1>2, <2>2 DEF Behind
  <2>4. Ran(e.lo, m)'
    BY <1>1, <2>3 DEF Ran
  <2>. QED
    BY <1>5, <1>7, <2>1, <2>2, <2>4 DEF Called
<1>9. ~ Pending(w, h)
  BY <1>a, <1>1, <1>2 DEF Pending
<1>10. PICK a : a = <<"held", w, 0>>
  OBVIOUS
<1>11. Share(a) = Span(g.lo, g.hi)
  <2>1. JobSpan(RightJob(e)) = Span(Mid(e), e.hi)
    BY <1>3 DEF JobSpan, RightJob
  <2>. QED
    BY <1>4, <1>7, <1>10, <2>1, Names
<1>12. PICK I : I = {}
  OBVIOUS
<1>13. /\ hits' \in [Start .. End - 1 -> Nat]
       /\ hits' = [i \in DOMAIN hits |-> hits[i] + IF i \in I THEN 1 ELSE 0]
  BY <1>1, <1>12, NoHit DEF SchedulerInv
<1>14. h = 1 => w # Main \/ ~ finishedFlag
  BY <1>1, <1>2 DEF SchedulerInv, StackInv
<1>15. I \subseteq Share(a) /\ Span(g.lo, g.hi) \cap I = {} /\ Span(g.lo, g.hi) \subseteq Share(a)
  BY <1>11, <1>12
<1>. QED
  <2>1. \A u \in Worker : HeldJob(u)' = HeldJob(u) \/ (u = w /\ HeldJob(u)' = NoJob)
    BY <1>4
  <2>2. finishedFlag => w # Main \/ h > 1
    BY <1>2, <1>14
  <2>3. granularity' \in Nat /\ granularity' >= 1
    BY <1>1, <1>2
  <2>4. \A u \in Worker \ {w} : reg'[u] = reg[u]
    BY <1>4
  <2>5. /\ f.op = "do" /\ f.at \in {"own", "joined"} /\ e.at # "joined" /\ f.op = e.op
        /\ Pending(w, h) <=> f.at = "own"
        /\ a = <<"held", w, 0>> => HeldJob(w)' = NoJob
        /\ f.at = "joined" => HeldJob(w) = RightJob(e) /\ HeldJob(w)' = NoJob
        /\ UNCHANGED <<done, conservative, finishedFlag>>
    BY <1>1, <1>4, <1>5, <1>9
  <2>. QED
    BY <1>a, <1>1, <1>4, <1>5, <1>7, <1>8, <1>10, <1>13, <1>15, <2>1, <2>2, <2>3,
       <2>4, <2>5, LoopStep

\* Before parallel_for has been called.
LEMMA AtCall ==
  ASSUME SchedulerInv, In(Main, "main", "call")
  PROVE  /\ Main \in Worker /\ Height(Main) = 1 /\ Top(Main) = F(Main, 1) /\ ~ finishedFlag
         /\ Top(Main).op = "main" /\ Top(Main).at = "call" /\ reg[Main] = D!Idle
         /\ Share(<<"frame", Main, 1>>) = Span(Start, End)
<1>1. Main \in Worker /\ Top(Main).op = "main" /\ Top(Main).at = "call" /\ reg[Main] = D!Idle
  BY SchedulerAssumption DEF In
<1>2. Height(Main) = 1 /\ Top(Main) = F(Main, 1)
  BY <1>1, Facts
<1>3. ~ finishedFlag
  BY <1>1, <1>2 DEF SchedulerInv, RanInv, Final
<1>4. FrameShare(Main, 1) = Span(Start, End)
  BY <1>1, <1>2 DEF FrameShare, FrameSpan
<1>. QED
  BY <1>1, <1>2, <1>3, <1>4, Names

\* parfor measures a granularity, unless it was given one, and starts the recursion.
LEMMA CallParforKeeps ==
  ASSUME SchedulerInv, CallParfor
  PROVE  SchedulerInv'
<1>a. PICK w, h, e, a : w = Main /\ h = 1 /\ e = Top(Main) /\ a = <<"frame", w, h>>
  OBVIOUS
<1>1. /\ w \in Worker /\ h = Height(w) /\ h = 1 /\ e = Top(w) /\ ~ finishedFlag
      /\ e.op = "main" /\ e.at = "call" /\ reg[w] = D!Idle /\ e = F(w, h)
      /\ Share(a) = Span(Start, End)
  BY <1>a, AtCall DEF CallParfor
<1>2. DataInv /\ FrameOK(e) /\ e \in FrameType /\ granularity \in Nat
      /\ Start \in Nat /\ End \in Nat
  BY <1>1, Facts, SchedulerAssumption DEF SchedulerInv, DataInv
<1>3. /\ Start + 1 < End /\ End - Start > granularity
      /\ bot' = bot /\ age' = age /\ deq' = deq /\ reg' = reg
      /\ UNCHANGED <<done, conservative, finishedFlag>>
  BY DEF CallParfor, KeepReg
<1>4. PICK d, run, per :
         /\ d \in (IF granularity = 0 THEN Measured ELSE {0})
         /\ run = IF d < End - Start THEN d ELSE End - Start
         /\ per = (End - Start) \div (128 * Cardinality(Worker))
         /\ granularity' = IF granularity > 0 THEN granularity
                           ELSE IF run > per THEN run ELSE per
         /\ Hit(Start, Start + run)
         /\ Become(Main, <<Frame("for", Start + run, End, "enter")>> \o At(Main, "returned"))
  BY DEF CallParfor
<1>5. d \in Nat /\ run \in Nat /\ Start + run <= End /\ (granularity = 0 => run >= 1)
  <2>1. d \in Nat /\ (granularity = 0 => d \in Nat \ {0})
    BY <1>4, SchedulerAssumption
  <2>2. PICK n \in Nat : n = End - Start /\ n > 1
    BY <1>2, <1>3
  <2>3. run = IF d < n THEN d ELSE n
    BY <1>4, <2>2
  <2>. QED
    BY <1>2, <2>1, <2>2, <2>3
<1>6. per \in Nat
  <2>1. Cardinality(Worker) \in Nat /\ Cardinality(Worker) # 0
    <3>1. IsFiniteSet(Worker) /\ Worker # {}
      BY SchedulerAssumption
    <3>. QED
      BY <3>1, FS_CardinalityType, FS_EmptySet
  <2>2. PICK n \in Nat, k \in Nat : n = End - Start /\ k = 128 * Cardinality(Worker) /\ k > 0
    <3>1. PICK c \in Nat : c = Cardinality(Worker) /\ c # 0
      BY <2>1
    <3>2. 128 * c \in Nat /\ 128 * c > 0
      BY <3>1
    <3>3. End - Start \in Nat
      BY <1>2, <1>3
    <3>. QED
      BY <3>1, <3>2, <3>3
  <2>3. n \div k \in Nat
    BY <2>2
  <2>. QED
    BY <1>4, <2>2, <2>3
<1>7. granularity' \in Nat /\ granularity' >= 1
  BY <1>2, <1>4, <1>5, <1>6
<1>b. PICK f, g, s : f = [e EXCEPT !.at = "returned"] /\ g = Frame("for", Start + run, End, "enter")
                     /\ s = Start + run
  OBVIOUS
<1>8. Become(w, Two(stack[w], f, g))
  BY <1>a, <1>b, <1>4 DEF Two, At, Under
<1>9. /\ f \in FrameType /\ f.op = "main" /\ f.at = "returned" /\ f.lo = e.lo /\ f.hi = e.hi
      /\ FrameOK(f)
  <2>1. f \in FrameType /\ f.op = "main" /\ f.at = "returned" /\ f.lo = e.lo /\ f.hi = e.hi
    BY <1>b, <1>1, <1>2 DEF FrameType, Ats, MainPlaces
  <2>. QED
    BY <2>1 DEF FrameOK, MainPlaces
<1>10. FrameOK(g) /\ g.op = "for" /\ g.lo = s /\ g.hi = End
  <2>1. s \in Nat /\ Start <= s /\ s <= End
    BY <1>b, <1>2, <1>5
  <2>2. g \in FrameType
    BY <1>b, <1>2, <2>1 DEF FrameType, Frame, Ops, Ats
  <2>3. g.op = "for" /\ g.lo = s /\ g.hi = End /\ g.at = "enter"
    BY <1>b DEF Frame
  <2>. QED
    BY <1>2, <2>1, <2>2, <2>3 DEF FrameOK
<1>11. PICK I : I = Span(Start, s)
  OBVIOUS
<1>12. /\ hits' \in [Start .. End - 1 -> Nat] /\ Ran(Start, s)'
       /\ hits' = [i \in DOMAIN hits |-> hits[i] + IF i \in I THEN 1 ELSE 0]
  <2>1. s \in Nat /\ Hit(Start, s)
    BY <1>b, <1>2, <1>4, <1>5
  <2>. QED
    BY <1>2, <1>11, <2>1, HitSpan
<1>13. Called(f, g)'
  BY <1>9, <1>10, <1>12 DEF Called
<1>14. /\ Span(g.lo, g.hi) \subseteq Share(a) /\ I \subseteq Share(a)
       /\ Span(g.lo, g.hi) \cap I = {}
  <2>1. s \in Nat /\ Start <= s /\ s <= End
    BY <1>b, <1>2, <1>5
  <2>. QED
    BY <1>1, <1>2, <1>10, <1>11, <2>1 DEF Span
<1>15. DequeInv' /\ SameSlots /\ SameHeld /\ reg'[w].at = "idle"
  BY <1>1, <1>3, Registers DEF D!Idle, SchedulerInv
<1>16. Pending(w, h) <=> f.at = "own"
  BY <1>1, <1>9 DEF Pending
<1>. QED
  <2>1. \A u \in Worker : HeldJob(u)' = HeldJob(u)
    BY <1>15 DEF SameHeld
  <2>2. a # <<"held", w, 0>> /\ f.at # "joined" /\ f.op = e.op
    BY <1>a, <1>1, <1>9
  <2>3. \A u \in Worker \ {w} : reg'[u] = reg[u]
    BY <1>3
  <2>. QED
    BY <1>a, <1>1, <1>3, <1>7, <1>8, <1>9, <1>10, <1>12, <1>13, <1>14, <1>15, <1>16, <2>1, <2>2,
       <2>3, LoopStep

\* parallel_for runs a short loop itself.
LEMMA CallInlineKeeps ==
  ASSUME SchedulerInv, CallInline
  PROVE  SchedulerInv'
<1>a. PICK w, h, e, a : w = Main /\ h = 1 /\ e = Top(Main) /\ a = <<"frame", w, h>>
  OBVIOUS
<1>b. PICK f : f = [e EXCEPT !.at = "returned"]
  OBVIOUS
<1>1. /\ w \in Worker /\ h = Height(w) /\ h = 1 /\ e = Top(w) /\ ~ finishedFlag
      /\ e.op = "main" /\ e.at = "call" /\ reg[w] = D!Idle /\ e = F(w, h)
      /\ Share(a) = Span(Start, End)
  BY <1>a, AtCall DEF CallInline
<1>2. DataInv /\ StackInv /\ RanInv /\ FrameOK(e) /\ e \in FrameType
      /\ Start \in Nat /\ End \in Nat
  BY <1>1, Facts, SchedulerAssumption DEF SchedulerInv
<1>3. /\ Hit(Start, End) /\ Become(w, One(stack[w], f)) /\ KeepReg
      /\ UNCHANGED <<done, granularity, conservative, finishedFlag>>
  BY <1>a, <1>b DEF CallInline, One, At, Under
<1>4. /\ f \in FrameType /\ f.op = "main" /\ f.at = "returned" /\ FrameOK(f)
  <2>1. f \in FrameType /\ f.op = "main" /\ f.at = "returned"
    BY <1>b, <1>1, <1>2 DEF FrameType, Ats, MainPlaces
  <2>. QED
    BY <2>1 DEF FrameOK, MainPlaces
<1>5. /\ hits' \in [Start .. End - 1 -> Nat] /\ Ran(Start, End)'
      /\ hits' = [i \in DOMAIN hits |-> hits[i] + IF i \in Span(Start, End) THEN 1 ELSE 0]
  BY <1>2, <1>3, HitSpan
<1>6. \A i \in Start .. End - 1 : hits'[i] \in Nat /\ hits'[i] >= hits[i]
  <2>1. PICK I : I = Span(Start, End)
    OBVIOUS
  <2>. QED
    BY <1>2, <1>5, <2>1, HitsGrow
<1>7. /\ OneCall(w) /\ Len(stack'[w]) = 1 /\ Height(w)' = 1 /\ After(w, 1) = f
      /\ F(w, 1)' = f
  <2>1. /\ stack' \in [Worker -> Seq(FrameType)] /\ Others(w)
        /\ Relabels(w, f) /\ Kept(w, Height(w) - 1)
    <3>1. DataInv /\ StackInv /\ w \in Worker /\ f \in FrameType /\ Become(w, One(stack[w], f))
      BY <1>1, <1>2, <1>3, <1>4
    <3>. QED
      BY ONLY <3>1, Shapes
  <2>2. Len(stack'[w]) = 1 /\ After(w, 1) = f
    BY <1>1, <2>1 DEF Relabels
  <2>3. OneCall(w)
    BY <2>1, <2>2 DEF OneCall
  <2>. QED
    BY <2>2, <2>3, PrimedFrames
<1>8. StackInv' /\ RanInv'
  <2>1. Behind(f)'
    BY <1>4, <1>5 DEF Behind
  <2>2. Behind(F(w, Height(w)))'
    <3>1. F(w, Height(w))' = F(w, 1)'
      BY <1>7, PrimedFrames DEF F, Height
    <3>. QED
      BY <1>7, <2>1, <3>1
  <2>3. \A p \in 1 .. Height(w)' - 1 : FALSE
    BY <1>7
  <2>4. \A p \in Height(w) .. Len(stack'[w]) :
            /\ FrameOK(After(w, p))
            /\ p = 1 => After(w, p).op \in {"main", "worker"}
            /\ After(w, p).op = "main" => w = Main /\ p = 1
            /\ After(w, p).op \in {"for", "do"} => granularity' >= 1
    BY <1>a, <1>1, <1>4, <1>7
  <2>. QED
    BY <1>1, <1>3, <1>6, <1>7, <2>2, <2>3, <2>4, CallStacks
<1>9. DequeInv' /\ SameSlots /\ SameHeld /\ reg' = reg /\ reg[w].at = "idle"
  BY <1>1, <1>3, Registers DEF KeepReg, D!Idle, SchedulerInv
<1>10. RegInv' /\ MatchInv' /\ OwnInv'
  <2>1. ~ Pending(w, Height(w))
    BY <1>1 DEF Pending
  <2>2. ASSUME NEW p \in Height(w) .. Len(stack'[w])
        PROVE  /\ After(w, p).op = "do" /\ After(w, p).at \in {"spawn", "own"} =>
                     p = Height(w) /\ Pending(w, p)
               /\ Seeker(After(w, p)) => Avail(w) = {}
    <3>1. After(w, p) = f
      BY <1>1, <1>7
    <3>. QED
      BY <1>4, <3>1 DEF Seeker
  <2>. QED
    <3>1. /\ w \in Worker /\ OneCall(w) /\ StackInv' /\ SameSlots /\ reg'[w].at = "idle"
          /\ \A u \in Worker \ {w} : reg'[u] = reg[u]
      BY <1>1, <1>7, <1>8, <1>9
    <3>. QED
      BY <2>1, <2>2, <3>1, CallMatch
<1>11. /\ a \in Name /\ JobOf(a)' = NoJob /\ JobOf(a) = NoJob /\ Share(a)' = {}
  <2>1. FrameJob(w, 1)' = NoJob /\ FrameShare(w, 1)' = {}
    BY <1>4, <1>7 DEF FrameJob, FrameShare, FrameSpan
  <2>2. FrameJob(w, 1) = NoJob
    BY <1>1 DEF FrameJob
  <2>. QED
    BY <1>a, <1>1, <2>1, <2>2, Names
<1>12. \A x \in Name : x # a => JobOf(x)' = JobOf(x) /\ Share(x)' = Share(x)
  <2>1. ASSUME NEW x \in Name, x # a
        PROVE  JobOf(x)' = JobOf(x) /\ Share(x)' = Share(x)
    <3>1. \A v \in Worker : \A s : SlotJob(v, s)' = SlotJob(v, s)
      BY <1>9 DEF SameSlots, SlotJob
    <3>2. \A v \in Worker : HeldJob(v)' = HeldJob(v)
      BY <1>9 DEF SameHeld
    <3>3. \/ JobOf(x)' = JobOf(x) /\ Share(x)' = Share(x)
          \/ \E p \in Nat : x = <<"frame", w, p>> /\ p >= 1
      BY <1>1, <1>7, <3>1, <3>2, CallPlaces
    <3>4. ASSUME NEW p \in Nat, x = <<"frame", w, p>>, p >= 1
          PROVE  JobOf(x)' = JobOf(x) /\ Share(x)' = Share(x)
      <4>1. p > 1
        BY <1>a, <2>1, <3>4
      <4>2. FrameShare(w, p) = {} /\ FrameJob(w, p) = NoJob
        BY <1>1, <4>1 DEF FrameShare, FrameJob
      <4>3. FrameShare(w, p)' = {} /\ FrameJob(w, p)' = NoJob
        BY <1>7, <4>1 DEF FrameShare, FrameJob
      <4>4. JobOf(x)' = FrameJob(w, p)' /\ JobOf(x) = FrameJob(w, p)
        BY <3>4, Names
      <4>5. Share(x)' = FrameShare(w, p)' /\ Share(x) = FrameShare(w, p)
        BY <3>4, Names
      <4>. QED
        BY <4>2, <4>3, <4>4, <4>5
    <3>. QED
      BY <3>3, <3>4
  <2>. QED
    BY <2>1
<1>13. ShareInv'
  <2>1. PICK I : I = Span(Start, End)
    OBVIOUS
  <2>2. hits' = [i \in DOMAIN hits |-> hits[i] + IF i \in I THEN 1 ELSE 0]
    BY <1>5, <2>1
  <2>3. /\ \A x \in Name \ {a} : Share(x)' \subseteq Share(x)
        /\ Share(a)' \subseteq Share(a) \cup Share(a)
        /\ I \subseteq Share(a) /\ Share(a)' \cap I = {}
    BY <1>1, <1>11, <1>12, <2>1
  <2>. QED
    BY <1>2, <1>11, <2>2, <2>3, ShareStep DEF SchedulerInv
<1>14. JobInv'
  <2>1. \A x \in Name : JobOf(x)' = JobOf(x) \/ JobOf(x)' = NoJob
    BY <1>11, <1>12
  <2>2. \A j \in done' : j \in done
    BY <1>3
  <2>3. \A v \in Worker, p \in Nat : Waiting(v, p) =>
           Waiting(v, p)' /\ RightJob(F(v, p)') = RightJob(F(v, p))
    <3>1. ~ Waiting(w, 1)
      BY <1>1 DEF Waiting
    <3>. QED
      BY <1>1, <1>7, <3>1, CallPlaces
  <2>4. \A y \in Name : \E z \in Name : Share(y)' \subseteq Share(z)
    BY <1>11, <1>12
  <2>. QED
    BY <2>1, <2>2, <2>3, <2>4, JobsStay
<1>15. DataInv'
  BY <1>2, <1>3, <1>5, <1>7 DEF DataInv, OneCall
<1>. QED
  BY <1>8, <1>9, <1>10, <1>13, <1>14, <1>15 DEF SchedulerInv

\* A range of at least two has a middle strictly inside it.
LEMMA MidInside ==
  ASSUME NEW e, e.lo \in Nat, e.hi \in Nat, e.hi - e.lo >= 2
  PROVE  Mid(e) \in Nat /\ e.lo < Mid(e) /\ Mid(e) < e.hi
<1>1. PICK n, k : n \in Nat /\ n = e.hi - e.lo /\ n >= 2 /\ k = (9 * (n + 1)) \div 16
  OBVIOUS
<1>2. \A m \in Nat : m \div 16 \in Nat /\ 16 * (m \div 16) <= m /\ m < 16 * (m \div 16) + 16
  OBVIOUS
<1>3. 9 * (n + 1) \in Nat /\ 9 * (n + 1) >= 27 /\ 9 * (n + 1) < 16 * n
  BY <1>1
<1>4. k \in Nat /\ k >= 1 /\ k < n
  BY <1>1, <1>2, <1>3
<1>5. Mid(e) = e.lo + k
  BY <1>1 DEF Mid
<1>. QED
  BY <1>1, <1>4, <1>5

\* The pardo that forks is the innermost to wait for a job; its slot is the last.
LEMMA ForkMatch ==
  ASSUME SchedulerInv, NEW w \in Worker, NEW h, h = Height(w), OneCall(w), NEW f,
         Len(stack'[w]) = h, After(w, h) = f, f.op = "do", f.at = "spawn",
         F(w, h).op = "for", StackInv', Adds(w, RightJob(f)),
         \A u \in Worker \ {w} : reg'[u] = reg[u], reg'[w].at = "pushed"
  PROVE  RegInv' /\ MatchInv' /\ OwnInv'
<1>1. DataInv /\ StackInv /\ MatchInv /\ DequeTypes /\ h \in Nat \ {0}
      /\ stack' \in [Worker -> Seq(FrameType)]
  BY Facts DEF SchedulerInv, DequeInv, OneCall
<1>2. /\ \A u \in Worker \ {w} : Top(u)' = Top(u)
      /\ Top(w)' = f
  <2>1. \A u \in Worker \ {w} : Top(u)' = Top(u)
    BY DEF Top, OneCall, Others
  <2>2. Top(w)' = f
    BY <1>1, TopAfter DEF OneCall
  <2>. QED
    BY <2>1, <2>2
<1>3. RegInv'
  <2>1. RegSuits(w)'
    BY <1>2 DEF RegSuits
  <2>2. \A u \in Worker \ {w} : RegSuits(u)'
    BY <1>2 DEF RegSuits, SchedulerInv, RegInv
  <2>. QED
    BY <2>1, <2>2 DEF RegInv
<1>4. OwnInv'
  <2>1. \A e : RightJob(e)' = RightJob(e)
    BY DEF RightJob, Mid
  <2>2. \A u \in Worker \ {w} : Avail(u)' = Avail(u)
    BY DEF Adds
  <2>3. ~ Answered(w, "do", "own")'
    BY <1>2 DEF Answered
  <2>. QED
    BY <1>2, <2>1, <2>2, <2>3 DEF OwnInv, Answered, SchedulerInv
<1>5. ASSUME NEW u \in Worker \ {w}
      PROVE  \E pos \in [Avail(u)' -> 1 .. Height(u)'] : Matches(u, pos)'
  <2>1. PICK m : m = Height(u)
    OBVIOUS
  <2>2. /\ m \in Nat \ {0} /\ Len(stack'[u]) = m /\ Height(u)' = m
        /\ \A p : After(u, p) = F(u, p) /\ F(u, p)' = F(u, p)
    BY <1>1, <2>1, FrameTypes DEF OneCall, Others, F, After, Height
  <2>3. Kept(u, m)
    BY <2>1, <2>2 DEF Kept
  <2>4. \A p \in 1 .. m : Pending(u, p)' <=> Pending(u, p)
    BY <2>1, <2>2 DEF Pending
  <2>5. /\ \A p \in 1 .. Height(u) : ~ (p > m)
        /\ \A p \in 1 .. Height(u)' : ~ (p > m)
    BY <2>1, <2>2
  <2>6. Avail(u)' = Avail(u) /\ deq'[u] = deq[u]
    BY <1>1 DEF Adds, DequeTypes
  <2>. QED
    BY <1>1, <2>3, <2>4, <2>5, <2>6, MatchKept DEF MatchInv
<1>6. \E pos \in [Avail(w)' -> 1 .. Height(w)'] : Matches(w, pos)'
  <2>1. PICK pos \in [Avail(w) -> 1 .. Height(w)] : Matches(w, pos)
    BY <1>1 DEF MatchInv
  <2>2. PICK A, b : A = Avail(w) /\ b = bot[w]
    OBVIOUS
  <2>3. /\ Avail(w)' = A \cup {b} /\ \A s \in A : s < b /\ s \in Nat
        /\ b \in Nat /\ deq'[w][b] = RightJob(f) /\ \A s \in A : deq'[w][s] = deq[w][s]
    <3>1. /\ deq' = [deq EXCEPT ![w][b] = RightJob(f)]
          /\ b \in 0 .. QSize - 1 /\ \A s \in A : s < b
          /\ Avail(w)' = A \cup {b}
      BY <2>2 DEF Adds
    <3>2. A \subseteq Nat
      BY <2>2, AvailNat DEF SchedulerInv
    <3>3. deq[w] \in [0 .. QSize - 1 -> Ranges \cup {NoJob}]
      BY <1>1 DEF DequeTypes
    <3>4. deq'[w] = [deq[w] EXCEPT ![b] = RightJob(f)]
      BY <1>1, <3>1 DEF DequeTypes
    <3>5. deq'[w][b] = RightJob(f)
      BY <3>1, <3>3, <3>4
    <3>6. \A s \in A : s # b
      BY <3>1, <3>2
    <3>7. \A s \in A : deq'[w][s] = deq[w][s]
      BY <3>3, <3>4, <3>6
    <3>. QED
      BY <3>1, <3>2, <3>5, <3>7
  <2>4. /\ Height(w)' = h /\ F(w, h)' = f
        /\ \A p \in 1 .. h - 1 : F(w, p)' = F(w, p)
    BY <1>1, PrimedFrames DEF OneCall, Kept
  <2>5. \A p \in 1 .. h - 1 : Pending(w, p)' <=> Pending(w, p)
    BY <1>1, <2>4 DEF Pending
  <2>6. Pending(w, h)' /\ ~ Pending(w, h) /\ ~ Seeker(f)
    BY <2>4 DEF Pending, Seeker, Seeking
  <2>7. \A s \in A : pos[s] \in 1 .. h - 1
    <3>1. \A s \in A : pos[s] \in 1 .. h /\ Pending(w, pos[s])
      BY <2>1, <2>2 DEF Matches
    <3>2. \A s \in A : pos[s] # h
      BY <2>6, <3>1
    <3>. QED
      BY <1>1, <3>1, <3>2
  <2>a. PICK q : q = [s \in A \cup {b} |-> IF s = b THEN h ELSE pos[s]]
    OBVIOUS
  <2>8. q[b] = h /\ (\A s \in A : q[s] = pos[s]) /\ q \in [A \cup {b} -> 1 .. h]
    BY <1>1, <2>3, <2>7, <2>a
  <2>9. \A s \in A \cup {b} : /\ q[s] \in 1 .. h /\ Pending(w, q[s])'
                              /\ deq'[w][s] = RightJob(F(w, q[s])')
    <3>1. ASSUME NEW s \in A
          PROVE  /\ q[s] \in 1 .. h /\ Pending(w, q[s])' /\ deq'[w][s] = RightJob(F(w, q[s])')
      <4>1. PICK p : p = q[s]
        OBVIOUS
      <4>2. p = pos[s] /\ p \in 1 .. h - 1 /\ Pending(w, p) /\ deq[w][s] = RightJob(F(w, p))
        BY <2>1, <2>2, <2>7, <2>8, <3>1, <4>1 DEF Matches
      <4>3. Pending(w, p)' /\ deq'[w][s] = RightJob(F(w, p)') /\ p \in 1 .. h
        BY <1>1, <2>3, <2>4, <2>5, <4>2
      <4>. QED
        BY <4>1, <4>3
    <3>2. q[b] \in 1 .. h /\ Pending(w, q[b])' /\ deq'[w][b] = RightJob(F(w, q[b])')
      <4>1. PICK p : p = q[b]
        OBVIOUS
      <4>2. p = h
        BY <2>8, <4>1
      <4>3. Pending(w, p)' /\ deq'[w][b] = RightJob(F(w, p)') /\ p \in 1 .. h
        BY <1>1, <2>3, <2>4, <2>6, <4>2
      <4>. QED
        BY <4>1, <4>3
    <3>. QED
      BY <3>1, <3>2
  <2>10. \A s, u \in A \cup {b} : s < u => q[s] < q[u]
    <3>1. \A s, u \in A : s < u => pos[s] < pos[u]
      BY <2>1, <2>2 DEF Matches
    <3>2. \A s \in A : ~ (b < s) /\ pos[s] < h
      BY <1>1, <2>3, <2>7
    <3>3. ~ (b < b)
      BY <2>3
    <3>. QED
      BY <2>8, <3>1, <3>2, <3>3
  <2>11. ASSUME NEW s \in A \cup {b}, NEW p \in 1 .. h, p > q[s]
         PROVE  /\ ~ Seeker(F(w, p)')
                /\ Pending(w, p)' => \E u \in A \cup {b} : q[u] = p
    <3>1. s \in A
      BY <1>1, <2>8, <2>11
    <3>2. CASE p = h
      BY <2>4, <2>6, <2>8, <3>2
    <3>3. CASE p \in 1 .. h - 1
      <4>1. p \in 1 .. Height(w) /\ p > pos[s]
        BY <2>8, <2>11, <3>1
      <4>2. ~ Seeker(F(w, p)) /\ (Pending(w, p) => \E u \in A : pos[u] = p)
        BY <2>1, <2>2, <3>1, <4>1 DEF Matches
      <4>3. ~ Seeker(F(w, p)')
        BY <2>4, <3>3, <4>2
      <4>4. Pending(w, p)' => \E u \in A \cup {b} : q[u] = p
        BY <2>5, <2>8, <3>3, <4>2
      <4>. QED
        BY <4>3, <4>4
    <3>. QED
      BY <1>1, <3>2, <3>3
  <2>12. \A e : Seeker(e)' = Seeker(e)
    BY DEF Seeker
  <2>13. \A e : RightJob(e)' = RightJob(e)
    BY DEF RightJob, Mid
  <2>14. Matches(w, q)'
    <3>1. \A s \in Avail(w)' : /\ q[s] \in 1 .. Height(w)'
                               /\ Pending(w, q[s])' /\ deq'[w][s] = RightJob(F(w, q[s])')
      BY <2>3, <2>4, <2>9
    <3>2. \A s, u \in Avail(w)' : s < u => q[s] < q[u]
      BY <2>3, <2>10
    <3>3. \A s \in Avail(w)', p \in 1 .. Height(w)' :
             p > q[s] => /\ ~ Seeker(F(w, p)')
                         /\ Pending(w, p)' => \E u \in Avail(w)' : q[u] = p
      BY <2>3, <2>4, <2>11
    <3>. QED
      BY <2>12, <2>13, <3>1, <3>2, <3>3 DEF Matches
  <2>15. q \in [Avail(w)' -> 1 .. Height(w)']
    BY <2>3, <2>4, <2>8
  <2>. QED
    BY <2>14, <2>15
<1>7. MatchInv'
  BY <1>5, <1>6 DEF MatchInv
<1>. QED
  BY <1>3, <1>4, <1>7

\* The job of a new pardo is nowhere else: its range is part of the caller's own share.
LEMMA ForkedIsNew ==
  ASSUME SchedulerInv, NEW w \in Worker, NEW e, e = Top(w), e.op = "for",
         e.lo < Mid(e), Mid(e) < e.hi, Mid(e) \in Nat
  PROVE  \A x \in Name : JobOf(x) # RightJob(e)
<1>1. PICK c : c = <<"frame", w, Height(w)>>
  OBVIOUS
<1>2. /\ c \in Name /\ Share(c) = Span(e.lo, e.hi)
      /\ e.lo \in Nat /\ e.hi \in Nat /\ Start <= e.lo /\ e.hi <= End
      /\ Start \in Nat /\ End \in Nat /\ JobOf(c) = NoJob
  <2>1. /\ e = F(w, Height(w)) /\ Height(w) \in 1 .. Height(w) /\ Height(w) \in Nat
        /\ FrameOK(e) /\ e \in FrameType
    BY Facts
  <2>2. FrameShare(w, Height(w)) = Span(e.lo, e.hi) /\ FrameJob(w, Height(w)) = NoJob
    BY <2>1 DEF FrameShare, FrameSpan, FrameJob
  <2>3. e.lo \in Nat /\ e.hi \in Nat /\ Start <= e.lo /\ e.hi <= End
    BY <2>1 DEF FrameOK, FrameType
  <2>. QED
    BY <1>1, <2>1, <2>2, <2>3, Names, SchedulerAssumption
<1>3. PICK j, m : j = RightJob(e) /\ m = Mid(e)
  OBVIOUS
<1>4. JobSpan(j) = Span(m, e.hi) /\ j # NoJob
  <2>1. j = <<m, e.hi>> /\ j \in Ranges
    BY <1>2, <1>3 DEF RightJob, Ranges
  <2>2. j # NoJob
    BY <2>1, DequesAssumption DEF D!DequeAssumption
  <2>. QED
    BY <2>1, <2>2 DEF JobSpan
<1>5. /\ m \in JobSpan(j) /\ m \in Share(c)
      /\ e.lo \notin JobSpan(j) /\ e.lo \in Share(c)
  BY <1>2, <1>3, <1>4 DEF Span
<1>6. ASSUME NEW x \in Name, JobOf(x) = j PROVE FALSE
  <2>1. CASE x[1] = "frame"
    <3>1. Share(c) \subseteq JobSpan(JobOf(x)) \/ Share(c) \cap JobSpan(JobOf(x)) = {}
      BY <1>2, <1>4, <1>6, <2>1 DEF SchedulerInv, JobInv
    <3>. QED
      BY <1>5, <1>6, <3>1
  <2>2. CASE x[1] # "frame"
    <3>1. Share(x) = JobSpan(j)
      BY <1>6, <2>2 DEF Share
    <3>2. x # c
      BY <1>2, <1>4, <1>6
    <3>3. Share(x) \cap Share(c) = {}
      BY <1>2, <3>2 DEF SchedulerInv, ShareInv
    <3>. QED
      BY <1>5, <3>1, <3>3
  <2>. QED
    BY <2>1, <2>2
<1>. QED
  BY <1>3, <1>6

\* pardo puts its right half on the deque: a job like no other.
LEMMA ForkKeeps ==
  ASSUME SchedulerInv, NEW w \in Worker, Fork(w)
  PROVE  SchedulerInv'
<1>a. PICK e, h : e = Top(w) /\ h = Height(w)
  OBVIOUS
<1>b. PICK f : f = [e EXCEPT !.op = "do", !.at = "spawn"]
  OBVIOUS
<1>1. /\ e.op = "for" /\ e.at = "enter" /\ e.hi - e.lo > granularity
      /\ D!PushStore(w, RightJob(e)) /\ done' = done \ {RightJob(e)}
      /\ Become(w, One(stack[w], f))
      /\ UNCHANGED <<hits, granularity, conservative, finishedFlag>>
  BY <1>a, <1>b DEF Fork, In, One, Under
<1>2. /\ e = F(w, h) /\ h \in Nat \ {0} /\ FrameOK(e) /\ e \in FrameType
      /\ granularity >= 1 /\ granularity \in Nat
      /\ DataInv /\ StackInv /\ RanInv /\ DequeInv
  BY <1>a, <1>1, Facts DEF SchedulerInv, DataInv
<1>3. /\ e.lo \in Nat /\ e.hi \in Nat /\ Start <= e.lo /\ e.hi <= End
      /\ Mid(e) \in Nat /\ e.lo < Mid(e) /\ Mid(e) < e.hi
  <2>1. e.lo \in Nat /\ e.hi \in Nat /\ Start <= e.lo /\ e.hi <= End
    BY <1>1, <1>2 DEF FrameOK, FrameType
  <2>2. e.hi - e.lo >= 2
    BY <1>1, <1>2, <2>1
  <2>. QED
    BY <2>1, <2>2, MidInside
<1>4. /\ f \in FrameType /\ f.op = "do" /\ f.at = "spawn" /\ f.lo = e.lo /\ f.hi = e.hi
  BY <1>b, <1>1, <1>2 DEF FrameType, Ops, Ats, Pardos
<1>5. Mid(f) = Mid(e) /\ RightJob(f) = RightJob(e) /\ FrameOK(f)
  <2>1. Mid(f) = Mid(e)
    BY <1>4 DEF Mid
  <2>. QED
    BY <1>3, <1>4, <2>1 DEF RightJob, FrameOK, Pardos
<1>6. /\ OneCall(w) /\ Len(stack'[w]) = h /\ Height(w)' = h /\ After(w, h) = f /\ F(w, h)' = f
      /\ \A p \in 1 .. h - 1 : F(w, p)' = F(w, p)
  <2>1. /\ stack' \in [Worker -> Seq(FrameType)] /\ Others(w)
        /\ Relabels(w, f) /\ Kept(w, Height(w) - 1)
    <3>1. DataInv /\ StackInv /\ w \in Worker /\ f \in FrameType /\ Become(w, One(stack[w], f))
      BY <1>1, <1>2, <1>4
    <3>. QED
      BY ONLY <3>1, Shapes
  <2>2. Len(stack'[w]) = h /\ After(w, h) = f
    BY <1>a, <2>1 DEF Relabels
  <2>3. OneCall(w)
    BY <1>2, <2>1, <2>2 DEF OneCall
  <2>4. \A p \in 1 .. h - 1 : F(w, p)' = F(w, p)
    BY <1>a, <2>1, PrimedFrames DEF Kept
  <2>. QED
    BY <2>2, <2>3, <2>4, PrimedFrames
<1>7. h > 1 /\ h - 1 \in 1 .. h - 1 /\ h - 1 \in 1 .. Height(w) - 1 /\ h - 1 + 1 = h
  <2>1. F(w, 1).op \in {"main", "worker"}
    BY <1>2 DEF StackInv
  <2>2. h # 1
    BY <1>1, <1>2, <2>1
  <2>. QED
    BY <1>a, <1>2, <2>2
<1>8. StackInv' /\ RanInv'
  <2>1. \A p \in Height(w) .. Len(stack'[w]) :
            /\ FrameOK(After(w, p))
            /\ p = 1 => After(w, p).op \in {"main", "worker"}
            /\ After(w, p).op = "main" => w = Main /\ p = 1
            /\ After(w, p).op \in {"for", "do"} => granularity' >= 1
    <3>1. \A p \in h .. h : p = h
      BY <1>2
    <3>. QED
      BY <1>a, <1>1, <1>2, <1>4, <1>5, <1>6, <1>7, <3>1
  <2>2. \A i \in Start .. End - 1 : hits'[i] \in Nat /\ hits'[i] >= hits[i]
    BY <1>1, <1>2 DEF DataInv
  <2>3. \A p \in 1 .. Height(w)' - 1 : p >= Height(w) - 1 => Called(F(w, p), F(w, p + 1))'
    <3>1. PICK d : d = F(w, h - 1)
      OBVIOUS
    <3>2. Called(d, e)
      BY <1>2, <1>7, <3>1 DEF RanInv
    <3>3. Called(d, f)
      BY <1>1, <1>4, <3>2 DEF Called
    <3>4. Called(d, f)'
      BY <1>2, <2>2, <3>3, RanGrows
    <3>5. ASSUME NEW p \in 1 .. h - 1, p >= h - 1 PROVE Called(F(w, p), F(w, p + 1))'
      <4>1. p = h - 1
        BY <1>2, <3>5
      <4>2. d = F(w, p)' /\ f = F(w, p + 1)'
        BY <1>6, <1>7, <3>1, <4>1
      <4>. QED
        BY <3>4, <4>2
    <3>. QED
      BY <1>a, <1>6, <3>5
  <2>4. Behind(F(w, Height(w)))'
    <3>1. Behind(f)'
      BY <1>4 DEF Behind
    <3>2. F(w, Height(w))' = F(w, h)'
      BY <1>6, PrimedFrames DEF F, Height
    <3>. QED
      BY <1>6, <3>1, <3>2
  <2>. QED
    BY <1>a, <1>1, <1>6, <1>7, <2>1, <2>2, <2>3, <2>4, CallStacks
<1>c. PICK j : j = RightJob(e)
  OBVIOUS
<1>9. j \in Ranges /\ j # NoJob /\ JobSpan(j) = Span(Mid(e), e.hi)
  <2>1. j \in Ranges
    BY <1>c, <1>3, SchedulerAssumption DEF RightJob, Ranges
  <2>2. j # NoJob
    BY <2>1, DequesAssumption DEF D!DequeAssumption
  <2>. QED
    BY <1>c, <2>1, <2>2 DEF JobSpan, RightJob
<1>10. DequeInv' /\ SameHeld /\ Adds(w, j)
  BY <1>c, <1>1, <1>2, <1>9, PushStoreStep
<1>11. reg'[w].at = "pushed" /\ \A u \in Worker \ {w} : reg'[u] = reg[u]
  BY <1>1, <1>2 DEF D!PushStore, D!Goto, DequeInv, DequeTypes
<1>12. RegInv' /\ MatchInv' /\ OwnInv'
  BY <1>a, <1>c, <1>1, <1>2, <1>4, <1>5, <1>6, <1>8, <1>10, <1>11, ForkMatch
<1>13. \A x \in Name : JobOf(x) # j
  BY <1>a, <1>c, <1>1, <1>3, ForkedIsNew
<1>d. PICK n, b, c : n = bot[w] /\ b = <<"slot", w, n>> /\ c = <<"frame", w, h>>
  OBVIOUS
<1>14. /\ n \in Nat /\ SlotJob(w, n)' = j
       /\ \A v \in Worker, s \in Nat : (v = w /\ s = n) \/ SlotJob(v, s)' = SlotJob(v, s)
  <2>1. /\ deq' = [deq EXCEPT ![w][n] = j] /\ n \in 0 .. QSize - 1
        /\ \A v \in Worker : Avail(v)' = IF v = w THEN Avail(w) \cup {n} ELSE Avail(v)
    BY <1>d, <1>10 DEF Adds
  <2>2. deq[w] \in [0 .. QSize - 1 -> Ranges \cup {NoJob}] /\ DOMAIN deq = Worker
    BY <1>2 DEF DequeInv, DequeTypes
  <2>3. deq'[w] = [deq[w] EXCEPT ![n] = j] /\ \A v \in Worker : v # w => deq'[v] = deq[v]
    BY <2>1, <2>2
  <2>4. deq'[w][n] = j
    BY <2>1, <2>2, <2>3
  <2>5. \A s : s # n /\ s \in Avail(w) => deq'[w][s] = deq[w][s]
    <3>1. \A s : s # n => [deq[w] EXCEPT ![n] = j][s] = deq[w][s] \/ s \notin 0 .. QSize - 1
      BY <2>2
    <3>2. Avail(w) \subseteq 0 .. QSize - 1
      <4>1. \A s \in Avail(w) : s < n /\ s \in Nat
        BY <1>d, <1>2, <1>10, AvailNat DEF Adds
      <4>2. \A s \in Nat : s < n => s \in 0 .. QSize - 1
        BY <2>1, DequesAssumption DEF D!DequeAssumption
      <4>. QED
        BY <4>1, <4>2
    <3>. QED
      BY <2>3, <3>1, <3>2
  <2>. QED
    BY <2>1, <2>3, <2>4, <2>5 DEF SlotJob
<1>15. /\ b \in Name /\ c \in Name /\ b # c /\ JobOf(b)' = j /\ Share(b)' = Span(Mid(e), e.hi)
       /\ JobOf(c)' = NoJob /\ JobOf(c) = NoJob
       /\ Share(c)' = Span(e.lo, Mid(e)) /\ Share(c) = Span(e.lo, e.hi)
  <2>1. FrameSpan(f)' = Span(e.lo, Mid(e))
    <3>1. FrameSpan(f) = Span(e.lo, Mid(e))
      BY <1>4, <1>5 DEF FrameSpan
    <3>. QED
      BY <3>1 DEF FrameSpan, Span, Mid
  <2>2. FrameJob(w, h)' = NoJob /\ FrameShare(w, h)' = Span(e.lo, Mid(e))
    BY <1>2, <1>4, <1>6, <2>1 DEF FrameJob, FrameShare
  <2>3. FrameJob(w, h) = NoJob /\ FrameShare(w, h) = Span(e.lo, e.hi)
    BY <1>a, <1>1, <1>2 DEF FrameJob, FrameShare, FrameSpan
  <2>4. b \in Name /\ c \in Name /\ b # c
    BY <1>d, <1>2, <1>14, Names
  <2>5. JobOf(b)' = j /\ Share(b)' = JobSpan(j)
    BY <1>d, <1>14, Names
  <2>6. JobOf(c)' = NoJob /\ Share(c)' = Span(e.lo, Mid(e))
    BY <1>d, <2>2, Names
  <2>7. JobOf(c) = NoJob /\ Share(c) = Span(e.lo, e.hi)
    BY <1>d, <2>3, Names
  <2>. QED
    BY <1>9, <2>4, <2>5, <2>6, <2>7
<1>16. \A x \in Name : x # b /\ x # c => JobOf(x)' = JobOf(x) /\ Share(x)' = Share(x)
  <2>1. ASSUME NEW x \in Name, x # b, x # c
        PROVE  JobOf(x)' = JobOf(x) /\ Share(x)' = Share(x)
    <3>1. \/ JobOf(x)' = JobOf(x) /\ Share(x)' = Share(x)
          \/ \E p \in Nat : x = <<"frame", w, p>> /\ p >= h
          \/ \E v \in Worker, p \in Nat : x = <<"slot", v, p>> /\ SlotJob(v, p)' # SlotJob(v, p)
      BY <1>a, <1>6, <1>10, CallPlaces DEF SameHeld
    <3>2. ASSUME NEW p \in Nat, x = <<"frame", w, p>>, p >= h
          PROVE  JobOf(x)' = JobOf(x) /\ Share(x)' = Share(x)
      <4>1. p > h
        BY <1>d, <1>2, <2>1, <3>2
      <4>2. FrameShare(w, p) = {} /\ FrameJob(w, p) = NoJob
        BY <1>a, <1>2, <4>1 DEF FrameShare, FrameJob
      <4>3. FrameShare(w, p)' = {} /\ FrameJob(w, p)' = NoJob
        BY <1>2, <1>6, <4>1 DEF FrameShare, FrameJob
      <4>4. JobOf(x)' = FrameJob(w, p)' /\ JobOf(x) = FrameJob(w, p)
        BY <3>2, Names
      <4>5. Share(x)' = FrameShare(w, p)' /\ Share(x) = FrameShare(w, p)
        BY <3>2, Names
      <4>. QED
        BY <4>2, <4>3, <4>4, <4>5
    <3>3. ~ \E v \in Worker, p \in Nat : x = <<"slot", v, p>> /\ SlotJob(v, p)' # SlotJob(v, p)
      BY <1>d, <1>14, <2>1
    <3>. QED
      BY <3>1, <3>2, <3>3
  <2>. QED
    BY <2>1
<1>17. /\ Span(e.lo, Mid(e)) \subseteq Span(e.lo, e.hi)
       /\ Span(Mid(e), e.hi) \subseteq Span(e.lo, e.hi)
       /\ Span(e.lo, Mid(e)) \cap Span(Mid(e), e.hi) = {}
  <2>1. PICK m \in Nat : m = Mid(e)
    BY <1>3
  <2>. QED
    BY <1>3, <2>1, SchedulerAssumption DEF Span
<1>18. ShareInv'
  <2>1. PICK I : I = {}
    OBVIOUS
  <2>2. hits' = [i \in DOMAIN hits |-> hits[i] + IF i \in I THEN 1 ELSE 0]
    BY <1>1, <1>2, <2>1, NoHit
  <2>3. /\ \A x \in Name \ {b} : Share(x)' \subseteq Share(x)
        /\ Share(b)' \subseteq Share(b) \cup Share(c)
        /\ c # b => Share(c)' \cap Share(b)' = {}
        /\ I \subseteq Share(c) /\ Share(c)' \cap I = {} /\ Share(b)' \cap I = {}
    BY <1>15, <1>16, <1>17, <2>1
  <2>. QED
    BY <1>2, <1>15, <2>2, <2>3, ShareStep DEF SchedulerInv
<1>19. JobInv'
  <2>1. \A x \in Name \ {b} : JobOf(x)' = JobOf(x)
    BY <1>15, <1>16
  <2>2. \A x \in Name \ {b} : JobOf(x)' # JobOf(b)'
    BY <1>13, <1>15, <2>1
  <2>3. \A x \in Name : JobOf(x)' # NoJob =>
            \/ \E z \in Name : JobOf(z) = JobOf(x)'
            \/ /\ JobOf(x)' \notin done'
               /\ \E v \in Worker, p \in Nat : Waiting(v, p)' /\ RightJob(F(v, p)') = JobOf(x)'
    <3>1. JobOf(b)' \notin done'
      BY <1>c, <1>1, <1>15
    <3>2. Waiting(w, h)' /\ RightJob(F(w, h)') = j
      BY <1>c, <1>2, <1>4, <1>5, <1>6 DEF Waiting
    <3>3. \E v \in Worker, p \in Nat : Waiting(v, p)' /\ RightJob(F(v, p)') = JobOf(b)'
      BY <1>2, <1>15, <3>2
    <3>. QED
      BY <2>1, <3>1, <3>3
  <2>4. \A v \in Worker, p \in Nat : Waiting(v, p) =>
           Waiting(v, p)' /\ RightJob(F(v, p)') = RightJob(F(v, p))
    <3>1. ~ Waiting(w, h)
      BY <1>1, <1>2 DEF Waiting
    <3>. QED
      BY <1>a, <1>6, <3>1, CallPlaces
  <2>5. \A y \in Name : \E z \in Name : Share(y)' \subseteq Share(z)
    BY <1>15, <1>16, <1>17
  <2>6. \A x \in Name : x[1] = "frame" => JobOf(x)' = JobOf(x)
    BY <1>d, <2>1
  <2>7. \A i \in done' : i \in done
    BY <1>1
  <2>. QED
    BY <1>15, <2>1, <2>2, <2>3, <2>4, <2>5, <2>6, <2>7, JobStep DEF SchedulerInv
<1>20. DataInv'
  BY <1>1, <1>2, <1>6 DEF DataInv, OneCall
<1>. QED
  BY <1>8, <1>10, <1>12, <1>18, <1>19, <1>20 DEF SchedulerInv

\* A worker runs the job it found.
LEMMA RunJobKeeps ==
  ASSUME SchedulerInv, NEW w \in Worker, RunJob(w)
  PROVE  SchedulerInv'
<1>a. PICK e, h, j : e = Top(w) /\ h = Height(w) /\ j = reg[w].job
  OBVIOUS
<1>b. PICK f, d, g : /\ f = [e EXCEPT !.at = "seek"]
                     /\ d = Frame("job", j[1], j[2], "finish")
                     /\ g = Frame("for", j[1], j[2], "enter")
  OBVIOUS
<1>1. /\ e.at \in {"popped", "stole"} /\ reg[w].at = "returned" /\ j # NoJob
      /\ Consume(w) /\ bot' = bot /\ age' = age /\ deq' = deq
      /\ UNCHANGED <<done, hits, granularity, conservative, finishedFlag>>
      /\ Become(w, Three(stack[w], f, d, g))
  BY <1>a, <1>b DEF RunJob, Answered, KeepDeques, KeepRest, Three, At, Under
<1>2. /\ e = F(w, h) /\ h \in Nat \ {0} /\ FrameOK(e) /\ e \in FrameType /\ Behind(e)
      /\ e.op \in {"do", "worker"} /\ h \in 1 .. h
      /\ DataInv /\ StackInv /\ RanInv /\ DequeInv /\ RegOK(w)
  <2>1. e.op \in {"do", "worker"}
    BY <1>a, <1>1, Facts, Places DEF Seeking
  <2>. QED
    BY <1>a, <2>1, Facts DEF SchedulerInv
<1>3. /\ DequeInv' /\ SameSlots /\ reg'[w].at = "idle"
      /\ \A u \in Worker \ {w} : reg'[u] = reg[u] /\ HeldJob(u)' = HeldJob(u)
      /\ HeldJob(w)' = NoJob /\ HeldJob(w) = j
  BY <1>a, <1>1, <1>2, Registers
<1>4. /\ j \in Ranges /\ j[1] \in Nat /\ j[2] \in Nat /\ j = <<j[1], j[2]>>
      /\ Start <= j[1] /\ j[1] < j[2] /\ j[2] <= End
  <2>1. j \in Ranges
    BY <1>a, <1>1, <1>2 DEF RegOK, Holding
  <2>. QED
    BY <2>1, SchedulerAssumption DEF Ranges
<1>c. PICK a, b, c, k : /\ a = <<"held", w, 0>> /\ b = <<"frame", w, h + 2>>
                        /\ c = <<"frame", w, h>> /\ k = <<"frame", w, h + 1>>
  OBVIOUS
<1>5. /\ a \in Name /\ b \in Name /\ c \in Name /\ k \in Name
      /\ a # b /\ a # c /\ a # k /\ b # c /\ b # k /\ c # k
  <2>1. h + 1 \in Nat /\ h + 2 \in Nat /\ h # h + 1 /\ h # h + 2 /\ h + 1 # h + 2
    BY <1>2
  <2>2. a \in Name /\ b \in Name /\ c \in Name /\ k \in Name
    BY <1>c, <1>2, <2>1, Names
  <2>3. a # b /\ a # c /\ a # k
    BY <1>c
  <2>4. b # c /\ b # k /\ c # k
    BY <1>c, <2>1
  <2>. QED
    BY <2>2, <2>3, <2>4
<1>6. JobOf(a) = j /\ JobOf(a)' = NoJob /\ Share(a) = JobSpan(j) /\ Share(a)' = {}
  <2>1. JobSpan(NoJob) = {}
    BY DEF JobSpan
  <2>. QED
    BY <1>c, <1>3, <2>1, Names
<1>7. granularity >= 1 /\ granularity \in Nat
  <2>1. PICK v \in Worker, p \in Nat : Waiting(v, p) /\ RightJob(F(v, p)) = j
    BY <1>1, <1>5, <1>6 DEF SchedulerInv, JobInv
  <2>2. p \in 1 .. Height(v) /\ F(v, p).op = "do"
    BY <2>1 DEF Waiting
  <2>. QED
    BY <1>2, <2>2 DEF StackInv, DataInv
<1>8. /\ f \in FrameType /\ f.op = e.op /\ f.at = "seek" /\ f.lo = e.lo /\ f.hi = e.hi
      /\ FrameOK(f)
  <2>1. f \in FrameType /\ f.op = e.op /\ f.at = "seek" /\ f.lo = e.lo /\ f.hi = e.hi
    BY <1>b, <1>2 DEF FrameType, Ats, Pardos
  <2>2. Mid(f) = Mid(e)
    BY <2>1 DEF Mid
  <2>. QED
    BY <1>2, <2>1, <2>2 DEF FrameOK, Pardos, WorkerPlaces, Seeking
<1>9. /\ d \in FrameType /\ d.op = "job" /\ d.lo = j[1] /\ d.hi = j[2] /\ FrameOK(d)
  <2>1. d \in FrameType /\ d.op = "job" /\ d.lo = j[1] /\ d.hi = j[2] /\ d.at = "finish"
    BY <1>b, <1>4 DEF FrameType, Frame, Ops, Ats
  <2>. QED
    BY <1>4, <2>1 DEF FrameOK
<1>10. /\ g \in FrameType /\ g.op = "for" /\ g.lo = j[1] /\ g.hi = j[2] /\ FrameOK(g)
  <2>1. g \in FrameType /\ g.op = "for" /\ g.lo = j[1] /\ g.hi = j[2] /\ g.at = "enter"
    BY <1>b, <1>4 DEF FrameType, Frame, Ops, Ats
  <2>. QED
    BY <1>4, <2>1 DEF FrameOK
<1>11. /\ OneCall(w) /\ Len(stack'[w]) = h + 2 /\ Height(w)' = h + 2
       /\ After(w, h) = f /\ After(w, h + 1) = d /\ After(w, h + 2) = g
       /\ F(w, h)' = f /\ F(w, h + 1)' = d /\ F(w, h + 2)' = g
       /\ \A p \in 1 .. h - 1 : F(w, p)' = F(w, p)
  <2>1. /\ stack' \in [Worker -> Seq(FrameType)] /\ Others(w)
        /\ CallsBoth(w, f, d, g) /\ Kept(w, Height(w) - 1)
    <3>1. /\ DataInv /\ StackInv /\ w \in Worker /\ f \in FrameType /\ d \in FrameType
          /\ g \in FrameType /\ Become(w, Three(stack[w], f, d, g))
      BY <1>1, <1>2, <1>8, <1>9, <1>10
    <3>. QED
      BY ONLY <3>1, Shapes
  <2>2. Len(stack'[w]) = h + 2 /\ After(w, h) = f /\ After(w, h + 1) = d /\ After(w, h + 2) = g
    BY <1>a, <2>1 DEF CallsBoth
  <2>3. OneCall(w)
    BY <1>2, <2>1, <2>2 DEF OneCall
  <2>4. \A p \in 1 .. h - 1 : F(w, p)' = F(w, p)
    BY <1>a, <2>1, PrimedFrames DEF Kept
  <2>. QED
    BY <2>2, <2>3, <2>4, PrimedFrames
<1>12. \A p \in Height(w) .. Len(stack'[w]) : p = h \/ p = h + 1 \/ p = h + 2
  BY <1>a, <1>2, <1>11
<1>13. StackInv' /\ RanInv'
  <2>1. ASSUME NEW p \in Height(w) .. Len(stack'[w])
        PROVE  /\ FrameOK(After(w, p))
               /\ p = 1 => After(w, p).op \in {"main", "worker"}
               /\ After(w, p).op = "main" => w = Main /\ p = 1
               /\ After(w, p).op \in {"for", "do"} => granularity' >= 1
    <3>1. CASE p = h
      <4>1. h = 1 => e.op \in {"main", "worker"}
        BY <1>2 DEF StackInv
      <4>. QED
        BY <1>1, <1>2, <1>7, <1>8, <1>11, <3>1, <4>1
    <3>2. CASE p = h + 1
      BY <1>2, <1>9, <1>11, <3>2
    <3>3. CASE p = h + 2
      BY <1>1, <1>2, <1>7, <1>10, <1>11, <3>3
    <3>. QED
      BY <1>12, <3>1, <3>2, <3>3
  <2>2. \A i \in Start .. End - 1 : hits'[i] \in Nat /\ hits'[i] >= hits[i]
    BY <1>1, <1>2 DEF DataInv
  <2>3. \A p \in 1 .. Height(w)' - 1 : p >= Height(w) - 1 => Called(F(w, p), F(w, p + 1))'
    <3>1. ASSUME NEW p \in 1 .. h + 1, p >= h - 1 PROVE Called(F(w, p), F(w, p + 1))'
      <4>1. CASE p = h + 1
        <5>1. Called(d, g)'
          BY <1>9, <1>10 DEF Called
        <5>2. d = F(w, p)' /\ g = F(w, p + 1)'
          BY <1>2, <1>11, <4>1
        <5>. QED
          BY <5>1, <5>2
      <4>2. CASE p = h
        <5>1. Called(f, d)
          <6>1. Mid(f) = Mid(e)
            BY <1>8 DEF Mid
          <6>2. e.op = "do" => Ran(e.lo, Mid(e))
            BY <1>1, <1>2 DEF Behind
          <6>. QED
            BY <1>2, <1>8, <1>9, <6>1, <6>2 DEF Called
        <5>2. Called(f, d)'
          BY <1>2, <2>2, <5>1, RanGrows
        <5>3. f = F(w, p)' /\ d = F(w, p + 1)'
          BY <1>11, <4>2
        <5>. QED
          BY <5>2, <5>3
      <4>3. CASE p = h - 1
        <5>1. PICK m : m = F(w, h - 1)
          OBVIOUS
        <5>2. Called(m, e)
          <6>1. h - 1 \in 1 .. Height(w) - 1 /\ h - 1 + 1 = h
            BY <1>a, <1>2, <3>1, <4>3
          <6>. QED
            BY <1>2, <5>1, <6>1 DEF RanInv
        <5>3. Called(m, f)
          BY <1>2, <1>8, <5>2 DEF Called
        <5>4. Called(m, f)'
          BY <1>2, <2>2, <5>3, RanGrows
        <5>5. m = F(w, p)' /\ f = F(w, p + 1)'
          <6>1. h - 1 + 1 = h /\ h - 1 \in 1 .. h - 1
            BY <1>2, <3>1, <4>3
          <6>. QED
            BY <1>11, <4>3, <5>1, <6>1
        <5>. QED
          BY <5>4, <5>5
      <4>. QED
        BY <1>2, <3>1, <4>1, <4>2, <4>3
    <3>2. Height(w)' - 1 = h + 1
      BY <1>2, <1>11
    <3>. QED
      BY <1>a, <3>1, <3>2
  <2>4. Behind(F(w, Height(w)))'
    <3>1. Behind(g)'
      BY <1>10 DEF Behind
    <3>2. F(w, Height(w))' = F(w, h + 2)'
      BY <1>11, PrimedFrames DEF F, Height
    <3>. QED
      BY <1>11, <3>1, <3>2
  <2>5. finishedFlag => w # Main \/ Height(w) > 1
    <3>1. w = Main /\ h = 1 => F(Main, 1).at \in {"popped", "stole"}
      BY <1>1, <1>2
    <3>. QED
      BY <1>a, <1>2, <3>1 DEF RanInv, Final
  <2>. QED
    BY <1>1, <1>11, <2>1, <2>2, <2>3, <2>4, <2>5, CallStacks
<1>14. Avail(w) = {}
  <2>1. ~ Pending(w, Height(w)) /\ Seeker(F(w, Height(w)))
    BY <1>a, <1>1, <1>2 DEF Pending, Seeker, Seeking
  <2>. QED
    BY <2>1, SeekerEmpty DEF SchedulerInv
<1>15. RegInv' /\ MatchInv' /\ OwnInv'
  <2>1. ~ Pending(w, Height(w))
    BY <1>a, <1>1, <1>2 DEF Pending
  <2>2. ASSUME NEW p \in Height(w) .. Len(stack'[w])
        PROVE  /\ After(w, p).op = "do" /\ After(w, p).at \in {"spawn", "own"} =>
                     p = Height(w) /\ Pending(w, p)
               /\ Seeker(After(w, p)) => Avail(w) = {}
    BY <1>8, <1>9, <1>10, <1>11, <1>12, <1>14
  <2>3. \A u \in Worker \ {w} : reg'[u] = reg[u]
    BY <1>3
  <2>. QED
    BY <1>3, <1>11, <1>13, <2>1, <2>2, <2>3, CallMatch
<1>16. /\ JobOf(b) = NoJob /\ JobOf(b)' = NoJob /\ Share(b) = {} /\ Share(b)' = JobSpan(j)
       /\ JobOf(c) = NoJob /\ JobOf(c)' = NoJob /\ Share(c) = {} /\ Share(c)' = {}
       /\ JobOf(k) = NoJob /\ JobOf(k)' = j /\ Share(k) = {} /\ Share(k)' = {}
  <2>1. /\ FrameSpan(f)' = {} /\ FrameSpan(d)' = {} /\ FrameSpan(e) = {}
        /\ FrameSpan(g)' = JobSpan(j)
    <3>1. FrameSpan(f) = {} /\ FrameSpan(d) = {} /\ FrameSpan(e) = {}
      BY <1>1, <1>2, <1>8, <1>9 DEF FrameSpan
    <3>2. FrameSpan(g) = JobSpan(j)
      BY <1>1, <1>10 DEF FrameSpan, JobSpan
    <3>3. \A x : FrameSpan(x)' = FrameSpan(x)
      BY DEF FrameSpan, Span, Mid
    <3>. QED
      BY <3>1, <3>2, <3>3
  <2>2. /\ FrameJob(w, h + 2)' = NoJob /\ FrameShare(w, h + 2)' = JobSpan(j)
        /\ FrameJob(w, h + 1)' = j /\ FrameShare(w, h + 1)' = {}
        /\ FrameJob(w, h)' = NoJob /\ FrameShare(w, h)' = {}
    BY <1>2, <1>4, <1>8, <1>9, <1>10, <1>11, <2>1 DEF FrameJob, FrameShare
  <2>3. /\ FrameJob(w, h + 2) = NoJob /\ FrameShare(w, h + 2) = {}
        /\ FrameJob(w, h + 1) = NoJob /\ FrameShare(w, h + 1) = {}
        /\ FrameJob(w, h) = NoJob /\ FrameShare(w, h) = {}
    BY <1>a, <1>2, <2>1 DEF FrameJob, FrameShare
  <2>4. JobOf(b) = NoJob /\ JobOf(b)' = NoJob /\ Share(b) = {} /\ Share(b)' = JobSpan(j)
    BY <1>c, <2>2, <2>3, Names
  <2>5. JobOf(c) = NoJob /\ JobOf(c)' = NoJob /\ Share(c) = {} /\ Share(c)' = {}
    BY <1>c, <2>2, <2>3, Names
  <2>6. JobOf(k) = NoJob /\ JobOf(k)' = j /\ Share(k) = {} /\ Share(k)' = {}
    BY <1>c, <2>2, <2>3, Names
  <2>. QED
    BY <2>4, <2>5, <2>6
<1>17. \A x \in Name : x \notin {a, b, c, k} => JobOf(x)' = JobOf(x) /\ Share(x)' = Share(x)
  <2>1. ASSUME NEW x \in Name, x \notin {a, b, c, k}
        PROVE  JobOf(x)' = JobOf(x) /\ Share(x)' = Share(x)
    <3>1. \A v \in Worker : \A s : SlotJob(v, s)' = SlotJob(v, s)
      BY <1>3 DEF SameSlots, SlotJob
    <3>2. \A v \in Worker \ {w} : HeldJob(v)' = HeldJob(v)
      BY <1>3
    <3>3. \/ JobOf(x)' = JobOf(x) /\ Share(x)' = Share(x)
          \/ \E p \in Nat : x = <<"frame", w, p>> /\ p >= h
      BY <1>a, <1>c, <1>11, <2>1, <3>1, <3>2, CallPlaces
    <3>4. ASSUME NEW p \in Nat, x = <<"frame", w, p>>, p >= h
          PROVE  JobOf(x)' = JobOf(x) /\ Share(x)' = Share(x)
      <4>1. p > h + 2
        BY <1>c, <1>2, <2>1, <3>4
      <4>2. FrameShare(w, p) = {} /\ FrameJob(w, p) = NoJob
        BY <1>a, <1>2, <4>1 DEF FrameShare, FrameJob
      <4>3. FrameShare(w, p)' = {} /\ FrameJob(w, p)' = NoJob
        BY <1>2, <1>11, <4>1 DEF FrameShare, FrameJob
      <4>4. JobOf(x)' = FrameJob(w, p)' /\ JobOf(x) = FrameJob(w, p)
        BY <3>4, Names
      <4>5. Share(x)' = FrameShare(w, p)' /\ Share(x) = FrameShare(w, p)
        BY <3>4, Names
      <4>. QED
        BY <4>2, <4>3, <4>4, <4>5
    <3>. QED
      BY <3>3, <3>4
  <2>. QED
    BY <2>1
<1>18. ShareInv'
  <2>1. PICK I : I = {}
    OBVIOUS
  <2>2. hits' = [i \in DOMAIN hits |-> hits[i] + IF i \in I THEN 1 ELSE 0]
    BY <1>1, <1>2, <2>1, NoHit
  <2>3. /\ \A x \in Name \ {b} : Share(x)' \subseteq Share(x)
        /\ Share(b)' \subseteq Share(b) \cup Share(a)
        /\ a # b => Share(a)' \cap Share(b)' = {}
        /\ I \subseteq Share(a) /\ Share(a)' \cap I = {} /\ Share(b)' \cap I = {}
    BY <1>6, <1>16, <1>17, <2>1
  <2>. QED
    BY <1>2, <1>5, <2>2, <2>3, ShareStep DEF SchedulerInv
<1>19. JobInv'
  <2>1. \A x \in Name \ {k} : JobOf(x)' = JobOf(x) \/ JobOf(x)' = NoJob
    BY <1>6, <1>16, <1>17
  <2>2. \A x \in Name \ {k} : JobOf(x)' # JobOf(k)'
    <3>1. ASSUME NEW x \in Name \ {k}, JobOf(x)' = j PROVE FALSE
      <4>1. JobOf(x) = j /\ x # a
        BY <1>1, <1>6, <2>1, <3>1
      <4>. QED
        BY <1>1, <1>5, <1>6, <4>1 DEF SchedulerInv, JobInv
    <3>. QED
      BY <1>16, <3>1
  <2>3. \A x \in Name : JobOf(x)' # NoJob => \E z \in Name : JobOf(z) = JobOf(x)'
    BY <1>5, <1>6, <1>16, <2>1
  <2>4. \A v \in Worker, p \in Nat : Waiting(v, p) =>
           Waiting(v, p)' /\ RightJob(F(v, p)') = RightJob(F(v, p))
    <3>1. ASSUME Waiting(w, h)
          PROVE  Waiting(w, h)' /\ RightJob(F(w, h)') = RightJob(F(w, h))
      <4>1. e.op = "do"
        BY <1>2, <3>1 DEF Waiting
      <4>2. Waiting(w, h)'
        BY <1>2, <1>8, <1>11, <4>1 DEF Waiting
      <4>3. RightJob(f) = RightJob(e)
        BY <1>8 DEF RightJob, Mid
      <4>. QED
        BY <1>2, <1>11, <4>2, <4>3
    <3>. QED
      BY <1>a, <1>11, <3>1, CallPlaces
  <2>5. \A y \in Name : \E z \in Name : Share(y)' \subseteq Share(z)
    BY <1>5, <1>6, <1>16, <1>17
  <2>6. \A y \in Name : Share(y)' \subseteq JobSpan(j) \/ Share(y)' \cap JobSpan(j) = {}
    <3>1. ASSUME NEW y \in Name
          PROVE  Share(y)' \subseteq JobSpan(j) \/ Share(y)' \cap JobSpan(j) = {}
      <4>1. CASE y \in {a, b, c, k}
        BY <1>6, <1>16, <4>1
      <4>2. CASE y \notin {a, b, c, k}
        <5>1. Share(y) \cap Share(a) = {}
          BY <1>5, <4>2 DEF SchedulerInv, ShareInv
        <5>. QED
          BY <1>6, <1>17, <4>2, <5>1
      <4>. QED
        BY <4>1, <4>2
    <3>. QED
      BY <3>1
  <2>7. \A x \in Name : x[1] = "frame" /\ JobOf(x)' # NoJob =>
            \/ JobOf(x)' = JobOf(x)
            \/ \A y \in Name : \/ Share(y)' \subseteq JobSpan(JobOf(x)')
                               \/ Share(y)' \cap JobSpan(JobOf(x)') = {}
    BY <1>16, <2>1, <2>6
  <2>8. \A i \in done' : i \in done
    BY <1>1
  <2>. QED
    BY <1>5, <2>1, <2>2, <2>3, <2>4, <2>5, <2>7, <2>8, JobStep DEF SchedulerInv
<1>20. DataInv'
  BY <1>1, <1>2, <1>11 DEF DataInv, OneCall
<1>. QED
  BY <1>3, <1>13, <1>15, <1>18, <1>19, <1>20 DEF SchedulerInv

-----------------------------------------------------------------------------
(* The invariant holds: at the start, and step by step.                    *)

\* At the start every stack has its first call, no deque holds a job and
\* the loop's range is the share of main's call.
LEMMA InitSchedulerInv ==
  ASSUME Init
  PROVE  SchedulerInv
<1>1. Main \in Worker /\ Start \in Nat /\ End \in Nat /\ NoJob \notin Ranges /\ QSize \in Nat \ {0}
  BY SchedulerAssumption, DequesAssumption DEF D!DequeAssumption
<1>2. /\ bot = [w \in Worker |-> 0] /\ age = [w \in Worker |-> [tag |-> 0, top |-> 0]]
      /\ deq = [w \in Worker |-> [i \in 0 .. QSize - 1 |-> NoJob]]
      /\ reg = [w \in Worker |-> [at |-> "idle"]]
  BY DEF Init, D!DequeInit, D!Idle
<1>3. PICK f \in [Worker -> FrameType] :
        /\ stack = [w \in Worker |-> <<f[w]>>]
        /\ \A w \in Worker : f[w] = IF w = Main THEN Frame("main", Start, End, "call")
                                    ELSE Frame("worker", 0, 0, "nap")
  <2>1. PICK f : f = [w \in Worker |-> IF w = Main THEN Frame("main", Start, End, "call")
                                       ELSE Frame("worker", 0, 0, "nap")]
    OBVIOUS
  <2>2. f \in [Worker -> FrameType]
    BY <1>1, <2>1 DEF Frame, FrameType, Ops, Ats, MainPlaces, WorkerPlaces
  <2>3. stack = [w \in Worker |-> <<f[w]>>]
    BY <2>1 DEF Init
  <2>. QED
    BY <2>1, <2>2, <2>3
<1>4. \A w \in Worker : /\ stack[w] \in Seq(FrameType) /\ Height(w) = 1
                        /\ F(w, 1) = f[w] /\ Top(w) = f[w]
  <2>1. \A e \in FrameType : /\ <<e>> \in Seq(FrameType) /\ Len(<<e>>) = 1
                             /\ <<e>>[1] = e /\ Head(<<e>>) = e
    OBVIOUS
  <2>. QED
    BY <1>3, <2>1 DEF Height, F, Top
<1>5. /\ f[Main].op = "main" /\ f[Main].at = "call"
      /\ \A w \in Worker \ {Main} : f[w].op = "worker" /\ f[w].at = "nap"
  BY <1>1, <1>3 DEF Frame
<1>6. DataInv
  <2>1. stack \in [Worker -> Seq(FrameType)]
    BY <1>3, <1>4
  <2>2. granularity \in Nat /\ conservative \in BOOLEAN
    BY SchedulerAssumption DEF Init
  <2>3. done \subseteq Ranges /\ hits \in [Start .. End - 1 -> Nat] /\ finishedFlag \in BOOLEAN
    BY DEF Init
  <2>. QED
    BY <2>1, <2>2, <2>3 DEF DataInv
<1>7. StackInv
  <2>1. \A w \in Worker : FrameOK(f[w])
    BY <1>3, <1>5 DEF FrameOK, MainPlaces, WorkerPlaces
  <2>. QED
    BY <1>4, <1>5, <2>1 DEF StackInv
<1>8. RegInv
  BY <1>2 DEF RegInv, RegSuits
<1>9. RanInv
  <2>1. \A w \in Worker : Behind(F(w, Height(w)))
    BY <1>4, <1>5 DEF Behind
  <2>2. \A w \in Worker : \A p \in 1 .. Height(w) - 1 : Called(F(w, p), F(w, p + 1))
    BY <1>4
  <2>. QED
    BY <2>1, <2>2 DEF RanInv, Init
<1>10. \A w \in Worker : Avail(w) = {}
  <2>1. \A w \in Worker : Avail(w) = 0 .. 0 - 1
    BY <1>2 DEF Avail
  <2>. QED
    BY <2>1
<1>11. DequeInv
  <2>1. DequeTypes
    <3>1. [tag |-> 0, top |-> 0] \in AgeType
      BY <1>1 DEF AgeType
    <3>. QED
      BY <1>1, <1>2, <3>1 DEF DequeTypes
  <2>2. \A w \in Worker : RegOK(w) /\ ThiefInv(w) /\ OwnerInv(w)
    BY <1>2 DEF RegOK, ThiefInv, OwnerInv, Reading, Lowering
  <2>. QED
    BY <2>1, <2>2 DEF DequeInv
<1>12. MatchInv
  <2>1. PICK pos : pos = [s \in {} |-> 1]
    OBVIOUS
  <2>2. \A w \in Worker : pos \in [Avail(w) -> 1 .. Height(w)] /\ Matches(w, pos)
    BY <1>10, <2>1 DEF Matches
  <2>. QED
    BY <2>2 DEF MatchInv
<1>13. OwnInv
  BY <1>2 DEF OwnInv, Answered
<1>14. \A x \in Name : JobOf(x) = NoJob
  <2>1. \A w \in Worker : HeldJob(w) = NoJob
    BY <1>2 DEF HeldJob, Holding
  <2>2. \A w \in Worker, p \in Nat : FrameJob(w, p) = NoJob
    BY <1>4, <1>5 DEF FrameJob
  <2>3. \A w \in Worker, s \in Nat : SlotJob(w, s) = NoJob
    BY <1>10 DEF SlotJob
  <2>. QED
    BY <2>1, <2>2, <2>3 DEF JobOf, Name
<1>15. \A x \in Name : Share(x) # {} => x = <<"frame", Main, 1>>
  <2>1. \A w \in Worker, p \in Nat : FrameShare(w, p) # {} => w = Main /\ p = 1
    BY <1>4, <1>5 DEF FrameShare, FrameSpan
  <2>2. ASSUME NEW x \in Name, Share(x) # {} PROVE x[1] = "frame"
    BY <1>14, <2>2 DEF Share, JobSpan
  <2>3. ASSUME NEW x \in Name, x[1] = "frame"
        PROVE  \E w \in Worker, p \in Nat : x = <<"frame", w, p>>
    BY <2>3 DEF Name
  <2>. QED
    BY <2>1, <2>2, <2>3 DEF Share
<1>16. ShareInv
  <2>1. \A x, y \in Name : x # y => Share(x) \cap Share(y) = {}
    BY <1>15
  <2>2. \A i \in Start .. End - 1 : hits[i] = 0
    BY DEF Init
  <2>3. \A x \in Name : Share(x) \subseteq Start .. End - 1
    BY DEF Share, FrameShare, FrameSpan, JobSpan, Span
  <2>. QED
    BY <2>1, <2>2, <2>3 DEF ShareInv
<1>17. JobInv
  BY <1>14 DEF JobInv
<1>. QED
  BY <1>6, <1>7, <1>8, <1>9, <1>11, <1>12, <1>13, <1>16, <1>17 DEF SchedulerInv

\* Whatever changes no variable changes nothing the invariant reads.
LEMMA StutterKeeps ==
  ASSUME SchedulerInv, UNCHANGED vars
  PROVE  SchedulerInv'
<1>1. /\ bot' = bot /\ age' = age /\ deq' = deq /\ reg' = reg /\ stack' = stack
      /\ done' = done /\ hits' = hits /\ granularity' = granularity
      /\ conservative' = conservative /\ finishedFlag' = finishedFlag
  BY DEF vars, control
<1>2. /\ \A w : Height(w)' = Height(w) /\ Top(w)' = Top(w) /\ Avail(w)' = Avail(w)
      /\ \A w, p : F(w, p)' = F(w, p)
  BY <1>1 DEF Height, Top, Avail, F
<1>3. DataInv' /\ StackInv' /\ RegInv'
  <2>1. \A f : FrameOK(f)' <=> FrameOK(f)
    BY DEF FrameOK
  <2>. QED
    BY <1>1, <1>2, <2>1 DEF SchedulerInv, DataInv, StackInv, RegInv, RegSuits
<1>4. RanInv'
  <2>1. /\ \A lo, hi : Ran(lo, hi)' <=> Ran(lo, hi)
        /\ \A f, g : Called(g, f)' <=> Called(g, f)
        /\ \A g : Behind(g)' <=> Behind(g)
    BY <1>1 DEF Ran, Called, Behind
  <2>. QED
    BY <1>1, <1>2, <2>1 DEF SchedulerInv, RanInv
<1>5. DequeInv'
  BY <1>1, <1>2 DEF SchedulerInv, DequeInv, DequeTypes, RegOK, OwnerInv, ThiefInv
<1>6. MatchInv'
  <2>1. \A w, pos : Matches(w, pos)' <=> Matches(w, pos)
    BY <1>1, <1>2 DEF Matches, Pending
  <2>. QED
    BY <1>2, <2>1 DEF SchedulerInv, MatchInv
<1>7. OwnInv'
  BY <1>1, <1>2 DEF SchedulerInv, OwnInv, Answered
<1>8. \A x : JobOf(x)' = JobOf(x) /\ Share(x)' = Share(x)
  BY <1>1, <1>2 DEF JobOf, Share, FrameJob, SlotJob, HeldJob, FrameShare
<1>9. ShareInv'
  BY <1>1, <1>8 DEF SchedulerInv, ShareInv
<1>10. JobInv'
  BY <1>1, <1>2, <1>8 DEF SchedulerInv, JobInv, Waiting
<1>. QED
  BY <1>3, <1>4, <1>5, <1>6, <1>7, <1>9, <1>10 DEF SchedulerInv

\* Every step preserves the invariant.
LEMMA NextKeeps ==
  ASSUME SchedulerInv, [Next]_vars
  PROVE  SchedulerInv'
<1>1. ASSUME MainStep
      PROVE  SchedulerInv'
  BY <1>1, CallInlineKeeps, CallParforKeeps, SpamKeeps, JoinThreadsKeeps DEF MainStep
<1>2. ASSUME NEW w \in Worker, WorkerStep(w)
      PROVE  SchedulerInv'
  <2>1. CASE \/ D!DequeStep(w) /\ UNCHANGED control
             \/ ForRun(w) \/ Fork(w) \/ RunLeft(w) \/ PopOwn(w) \/ RunRight(w)
             \/ RightTaken(w) \/ Join(w)
    BY <2>1, DequeKeeps, ForRunKeeps, ForkKeeps, RunLeftKeeps, PopOwnKeeps, RunRightKeeps,
       RightTakenKeeps, JoinKeeps
  <2>2. CASE \/ StopSeeking(w) \/ SeekOwn(w) \/ TrySteal(w) \/ NothingFound(w)
             \/ RunJob(w) \/ FinishJob(w)
    BY <2>2, StopSeekingKeeps, SeekOwnKeeps, TryStealKeeps, NothingFoundKeeps, RunJobKeeps,
       JoinKeeps
  <2>3. CASE TimeOut(w) \/ GoToSleep(w) \/ WakeUp(w) \/ WakeOneWorker(w) \/ NotifyOne(w)
    BY <2>3, SleepKeeps, WakeKeeps
  <2>. QED
    BY <1>2, <2>1, <2>2, <2>3 DEF WorkerStep
<1>. QED
  BY <1>1, <1>2, StutterKeeps DEF Next

\* The invariant holds for every number of workers, range, granularity,
\* deque size and interleaving.
THEOREM SchedulerInvHolds == Spec => []SchedulerInv
<1>1. Init => SchedulerInv
  BY InitSchedulerInv
<1>2. SchedulerInv /\ [Next]_vars => SchedulerInv'
  BY NextKeeps
<1>. QED
  BY <1>1, <1>2, PTL DEF Spec

-----------------------------------------------------------------------------
(* What it says of jobs.                                                   *)

\* Every call of a stack has its place counted from the bottom.
LEMMA PlaceOf ==
  ASSUME SchedulerInv, NEW w \in Worker, NEW k \in DOMAIN stack[w]
  PROVE  \E p \in 1 .. Height(w) : stack[w][k] = F(w, p)
<1>1. PICK s \in Seq(FrameType) : s = stack[w]
  BY DEF SchedulerInv, DataInv
<1>2. Len(s) \in Nat /\ k \in 1 .. Len(s)
  BY <1>1
<1>3. Len(s) + 1 - k \in 1 .. Len(s) /\ Len(s) + 1 - (Len(s) + 1 - k) = k
  BY <1>2
<1>. QED
  BY <1>1, <1>3 DEF F, Height

\* Every place is that of a call of the stack.
LEMMA PlaceIn ==
  ASSUME SchedulerInv, NEW w \in Worker, NEW p \in 1 .. Height(w)
  PROVE  \E k \in DOMAIN stack[w] : stack[w][k] = F(w, p)
<1>1. PICK s \in Seq(FrameType) : s = stack[w]
  BY DEF SchedulerInv, DataInv
<1>2. Len(s) \in Nat /\ p \in 1 .. Len(s) /\ DOMAIN s = 1 .. Len(s)
  BY <1>1 DEF Height
<1>3. Len(s) + 1 - p \in 1 .. Len(s)
  BY <1>2
<1>. QED
  BY <1>1, <1>2, <1>3 DEF F, Height

\* The type invariant follows.
LEMMA TypesHold ==
  ASSUME SchedulerInv
  PROVE  TypeOK
<1>1. /\ bot \in [Worker -> 0 .. QSize - 1] /\ DOMAIN age = Worker
      /\ deq \in [Worker -> [0 .. QSize - 1 -> Ranges \cup {NoJob}]]
      /\ done \subseteq Ranges /\ finishedFlag \in BOOLEAN /\ granularity \in Nat
  BY DEF SchedulerInv, DequeInv, DequeTypes, DataInv
<1>2. \A w \in Worker : age[w] \in D!Age /\ age[w].top < QSize
  <2>1. QSize \in Nat
    BY DequesAssumption DEF D!DequeAssumption
  <2>2. \A a \in AgeType : a \in D!Age /\ a.top < QSize
    BY <2>1 DEF AgeType, D!Age
  <2>. QED
    BY <2>2 DEF SchedulerInv, DequeInv, DequeTypes
<1>3. ASSUME NEW w \in Worker, NEW k \in DOMAIN stack[w]
      PROVE  /\ stack[w][k].op \in {"main", "worker", "for", "do", "job"}
             /\ stack[w][k].op = "do" =>
                  /\ stack[w][k].at \in Pardos
                  /\ stack[w][k].lo < Mid(stack[w][k]) /\ Mid(stack[w][k]) < stack[w][k].hi
  <2>1. PICK p \in 1 .. Height(w) : stack[w][k] = F(w, p)
    BY PlaceOf
  <2>2. FrameOK(F(w, p))
    BY DEF SchedulerInv, StackInv
  <2>. QED
    BY <2>1, <2>2 DEF FrameOK
<1>. QED
  BY <1>1, <1>2, <1>3 DEF TypeOK

\* pardo takes back the job it pushed, or finds its deque empty: the
\* assertion in pardo (scheduler.h) cannot fail.
THEOREM OwnJobHolds == Spec => []OwnJobIsRight
<1>1. SchedulerInv => OwnJobIsRight
  <2>. SUFFICES ASSUME SchedulerInv
                PROVE  OwnJobIsRight
    OBVIOUS
  <2>. QED
    BY TypesHold DEF OwnJobIsRight, SchedulerInv, OwnInv
<1>. QED
  BY <1>1, SchedulerInvHolds, PTL

\* A pardo that waits at place p of w's stack makes its right half live.
LEMMA WaitingIsLive ==
  ASSUME SchedulerInv, NEW j, NEW x \in Name, JobOf(x) = j, j # NoJob
  PROVE  Live(j)
<1>1. PICK w \in Worker, p \in Nat : Waiting(w, p) /\ RightJob(F(w, p)) = j
  BY DEF SchedulerInv, JobInv
<1>2. PICK k \in DOMAIN stack[w] : stack[w][k] = F(w, p)
  BY <1>1, PlaceIn DEF Waiting
<1>. QED
  BY <1>1, <1>2 DEF Live, Waiting

\* A forked job lives on the stack of the pardo that forked it; nobody runs
\* it, or is about to, after that pardo has returned.
THEOREM JobsOutlived == Spec => []NoDanglingJob
<1>1. SchedulerInv => NoDanglingJob
  <2>. SUFFICES ASSUME SchedulerInv, NEW w \in Worker
                PROVE  /\ \A k \in DOMAIN stack[w] : stack[w][k].op = "job" =>
                            Live(<<stack[w][k].lo, stack[w][k].hi>>)
                       /\ reg[w].at \in Holding /\ reg[w].job # NoJob => Live(reg[w].job)
    BY DEF NoDanglingJob, Holding
  <2>1. ASSUME NEW k \in DOMAIN stack[w], stack[w][k].op = "job"
        PROVE  Live(<<stack[w][k].lo, stack[w][k].hi>>)
    <3>1. PICK p \in 1 .. Height(w) : stack[w][k] = F(w, p)
      BY PlaceOf
    <3>2. PICK j : j = <<F(w, p).lo, F(w, p).hi>>
      OBVIOUS
    <3>3. j \in Ranges
      BY <2>1, <3>1, <3>2 DEF SchedulerInv, StackInv, FrameOK
    <3>4. j # NoJob
      BY <3>3, DequesAssumption DEF D!DequeAssumption
    <3>5. <<"frame", w, p>> \in Name /\ JobOf(<<"frame", w, p>>) = j
      <4>1. p \in Nat
        OBVIOUS
      <4>. QED
        BY <2>1, <3>1, <3>2, <4>1 DEF Name, JobOf, FrameJob
    <3>. QED
      BY <3>1, <3>2, <3>4, <3>5, WaitingIsLive
  <2>2. ASSUME reg[w].at \in Holding, reg[w].job # NoJob
        PROVE  Live(reg[w].job)
    <3>1. <<"held", w, 0>> \in Name /\ JobOf(<<"held", w, 0>>) = reg[w].job
      BY <2>2 DEF Name, JobOf, HeldJob
    <3>. QED
      BY <2>2, <3>1, WaitingIsLive
  <2>. QED
    BY <2>1, <2>2
<1>. QED
  BY <1>1, SchedulerInvHolds, PTL

-----------------------------------------------------------------------------
(* What it says of the loop: Scheduler implements ParallelFor.             *)

\* To run iterations that are somebody's share is to call them for the first time.
LEMMA RunIsCall ==
  ASSUME SchedulerInv, NEW lo \in Nat, NEW hi \in Nat, Hit(lo, hi),
         finishedFlag' = finishedFlag, NEW x \in Name, Span(lo, hi) \subseteq Share(x)
  PROVE  [Promise!Next]_<<hits, finishedFlag>>
<1>. PICK I : I = Span(lo, hi)
  OBVIOUS
<1>1. /\ I \subseteq Start .. End - 1 /\ \A i \in I : hits[i] = 0
      /\ hits \in [Start .. End - 1 -> Nat]
  BY DEF Span, SchedulerInv, ShareInv, DataInv
<1>2. hits' = [i \in DOMAIN hits |-> hits[i] + IF i \in I THEN 1 ELSE 0]
  BY HitSpan DEF SchedulerInv
<1>3. CASE I = {}
  <2>1. hits' = hits
    BY <1>1, <1>2, <1>3
  <2>. QED
    BY <2>1
<1>4. CASE I # {}
  <2>1. ~ finishedFlag
    <3>1. PICK i \in I : hits[i] = 0
      BY <1>1, <1>4
    <3>2. i \in Start .. End - 1 /\ i < End /\ Start <= i
      BY <1>1, SchedulerAssumption
    <3>3. Ran(Start, End) => hits[i] >= 1
      BY <3>2 DEF Ran
    <3>. QED
      BY <3>1, <3>3 DEF SchedulerInv, RanInv
  <2>2. hits' = [i \in Start .. End - 1 |-> IF i \in I THEN 1 ELSE hits[i]]
    BY <1>1, <1>2
  <2>3. Promise!Call(I)
    BY <1>1, <1>4, <2>1, <2>2 DEF Promise!Call, Promise!Indices
  <2>. QED
    BY <1>1, <2>3 DEF Promise!Next, Promise!Indices
<1>. QED
  BY <1>3, <1>4

\* When parallel_for is about to return, every iteration has been run, and once.
LEMMA ShutdownIsReturn ==
  ASSUME SchedulerInv, Shutdown
  PROVE  Promise!Return
<1>1. Main \in Worker
  BY SchedulerAssumption
<1>2. Top(Main).op = "main" /\ Top(Main).at = "returned"
  BY DEF Shutdown, In
<1>3. Top(Main) = F(Main, 1) /\ Behind(Top(Main))
  BY <1>1, <1>2, Facts
<1>4. ~ finishedFlag
  BY <1>2, <1>3 DEF SchedulerInv, RanInv, Final
<1>5. \A i \in Start .. End - 1 : hits[i] = 1
  <2>1. Ran(Start, End)
    BY <1>2, <1>3 DEF Behind
  <2>2. ASSUME NEW i \in Start .. End - 1 PROVE hits[i] = 1
    <3>1. Start <= i /\ i < End
      BY SchedulerAssumption
    <3>2. hits[i] \in Nat /\ hits[i] >= 1 /\ hits[i] <= 1
      BY <2>1, <3>1 DEF Ran, SchedulerInv, ShareInv, DataInv
    <3>. QED
      BY <3>2
  <2>. QED
    BY <2>2
<1>. QED
  BY <1>4, <1>5 DEF Shutdown, Promise!Return, Promise!Indices

\* Every step is one of ParallelFor, or leaves its variables alone.
LEMMA StepIsPromised ==
  ASSUME SchedulerInv, [Next]_vars
  PROVE  [Promise!Next]_<<hits, finishedFlag>>
<1>0. ASSUME UNCHANGED <<hits, finishedFlag>>
      PROVE  [Promise!Next]_<<hits, finishedFlag>>
  BY <1>0
<1>1. ASSUME MainStep
      PROVE  [Promise!Next]_<<hits, finishedFlag>>
  <2>1. CASE CallInline \/ CallParfor
    <3>1. In(Main, "main", "call")
      BY <2>1 DEF CallInline, CallParfor
    <3>2. Main \in Worker /\ Start \in Nat /\ End \in Nat
      BY SchedulerAssumption
    <3>3. /\ <<"frame", Main, 1>> \in Name
          /\ Share(<<"frame", Main, 1>>) = Span(Start, End)
      BY <3>1, <3>2, AtCall DEF Name
    <3>4. CASE CallInline
      BY <3>2, <3>3, <3>4, RunIsCall DEF CallInline
    <3>5. CASE CallParfor
      <4>1. PICK d \in (IF granularity = 0 THEN Measured ELSE {0}) :
              Hit(Start, Start + (IF d < End - Start THEN d ELSE End - Start))
        BY <3>5 DEF CallParfor
      <4>2. PICK run : run = (IF d < End - Start THEN d ELSE End - Start)
        OBVIOUS
      <4>3. d \in Nat /\ Start + 1 < End /\ finishedFlag' = finishedFlag
        BY <3>5, SchedulerAssumption DEF CallParfor
      <4>4. Start + run \in Nat /\ Start + run <= End
        BY <3>2, <4>2, <4>3
      <4>5. Span(Start, Start + run) \subseteq Span(Start, End)
        BY <3>2, <4>4 DEF Span
      <4>6. Hit(Start, Start + run)
        BY <4>1, <4>2
      <4>. QED
        BY <3>2, <3>3, <4>3, <4>4, <4>5, <4>6, RunIsCall
    <3>. QED
      BY <2>1, <3>4, <3>5
  <2>2. CASE Shutdown
    BY <2>2, ShutdownIsReturn DEF Promise!Next
  <2>3. CASE SpamWake \/ SpamNotify \/ JoinThreads
    BY <1>0, <2>3 DEF SpamWake, SpamNotify, JoinThreads, KeepRest
  <2>. QED
    BY <1>1, <2>1, <2>2, <2>3 DEF MainStep
<1>2. ASSUME NEW w \in Worker, WorkerStep(w)
      PROVE  [Promise!Next]_<<hits, finishedFlag>>
  <2>1. CASE ForRun(w)
    <3>1. PICK f : f = Top(w)
      OBVIOUS
    <3>2. /\ f.op = "for" /\ Hit(f.lo, f.hi) /\ finishedFlag' = finishedFlag
      BY <2>1, <3>1 DEF ForRun, In
    <3>3. f.lo \in Nat /\ f.hi \in Nat /\ f = F(w, Height(w)) /\ Height(w) \in 1 .. Height(w)
          /\ Height(w) \in Nat
      BY <3>1, Facts DEF FrameType
    <3>4. <<"frame", w, Height(w)>> \in Name
          /\ Share(<<"frame", w, Height(w)>>) = Span(f.lo, f.hi)
      BY <3>2, <3>3 DEF Name, Share, FrameShare, FrameSpan
    <3>. QED
      BY <3>2, <3>3, <3>4, RunIsCall
  <2>2. CASE D!DequeStep(w) /\ UNCHANGED control
    BY <1>0, <2>2 DEF control
  <2>3. CASE \/ Fork(w) \/ RunLeft(w) \/ PopOwn(w) \/ RunRight(w)
             \/ RightTaken(w) \/ Join(w)
    BY <1>0, <2>3 DEF Fork, RunLeft, PopOwn, RunRight, RightTaken, Join, KeepRest
  <2>4. CASE \/ StopSeeking(w) \/ SeekOwn(w) \/ TrySteal(w) \/ NothingFound(w)
             \/ RunJob(w) \/ FinishJob(w)
    BY <1>0, <2>4 DEF StopSeeking, SeekOwn, TrySteal, NothingFound, RunJob, FinishJob, KeepRest
  <2>5. CASE TimeOut(w) \/ GoToSleep(w) \/ WakeUp(w) \/ WakeOneWorker(w) \/ NotifyOne(w)
    BY <1>0, <2>5 DEF TimeOut, GoToSleep, WakeUp, SleepStep, WakeOneWorker, NotifyOne, KeepRest
  <2>. QED
    BY <1>2, <2>1, <2>2, <2>3, <2>4, <2>5 DEF WorkerStep
<1>3. ASSUME UNCHANGED vars
      PROVE  [Promise!Next]_<<hits, finishedFlag>>
  BY <1>0, <1>3 DEF vars, control
<1>. QED
  BY <1>1, <1>2, <1>3 DEF Next

\* The scheduler implements parallel_for: every index is given to the loop
\* body exactly once, by whichever worker, before the caller goes on.
THEOREM LoopImplemented == Spec => ImplementsParallelFor
<1>1. Init => Promise!Init
  BY DEF Init, Promise!Init, Promise!Indices
<1>2. SchedulerInv /\ [Next]_vars => [Promise!Next]_<<hits, finishedFlag>>
  BY StepIsPromised
<1>. QED
  BY <1>1, <1>2, SchedulerInvHolds, PTL DEF Spec, ImplementsParallelFor, Promise!Spec
=============================================================================
