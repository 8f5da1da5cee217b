------------------------------ MODULE Scheduler ------------------------------
(***************************************************************************)
(* ParlayLib's work-stealing scheduler (src/parlay/scheduler.h), running   *)
(* one parallel_for and then its own shutdown: the fork-join recursion of  *)
(* parfor_ and pardo, the search for work of waiting and of idle workers,  *)
(* their sleep and the wake-ups, and the destructor.  Worker 0 is the      *)
(* thread that created the scheduler.  stack[w] is the call stack of       *)
(* worker w, innermost call first; at says where a call stands.  A forked  *)
(* job is a range of the loop, on the stack of the pardo that forked it.   *)
(***************************************************************************)
EXTENDS Naturals, Sequences, FiniteSets

CONSTANTS Worker, NoJob, QSize,
          Start, End,           \* the range of the loop
          Modes,                \* pairs (granularity, conservative) of the call;
                                \* granularity 0 lets parfor measure one
          Measured              \* how many iterations the measurement may run

Main == 0

ASSUME SchedulerAssumption ==
    /\ Main \in Worker /\ IsFiniteSet(Worker) /\ Start \in Nat /\ End \in Nat
    /\ Modes \subseteq Nat \X BOOLEAN /\ Measured \subseteq Nat \ {0}

Ranges == {j \in (Start .. End) \X (Start .. End) : j[1] < j[2]}

VARIABLES bot, age, deq, reg,   \* see WorkStealingDeque
          stack,
          done,                 \* the jobs whose done flag is set
          hits,                 \* how often the body ran with each index
          granularity, conservative,
          finishedFlag

D == INSTANCE WorkStealingDeque WITH Job <- Ranges

ASSUME DequesAssumption == D!DequeAssumption

control == <<stack, done, hits, granularity, conservative, finishedFlag>>
vars == <<bot, age, deq, reg, control>>

Frame(op, lo, hi, at) == [op |-> op, lo |-> lo, hi |-> hi, at |-> at]
Top(w) == Head(stack[w])
Under(w) == Tail(stack[w])
\* the innermost call of w moves on to `at', or calls f, or returns
At(w, at) == <<[Top(w) EXCEPT !.at = at]>> \o Under(w)
Become(w, s) == stack' = [stack EXCEPT ![w] = s]
In(w, op, at) == reg[w] = D!Idle /\ Top(w).op = op /\ Top(w).at = at
Answered(w, op, at) == reg[w].at = "returned" /\ Top(w).op = op /\ Top(w).at = at
Consume(w) == reg' = [reg EXCEPT ![w] = D!Idle]
KeepReg == UNCHANGED <<bot, age, deq, reg>>
KeepDeques == UNCHANGED <<bot, age, deq>>
KeepRest == UNCHANGED <<done, hits, granularity, conservative, finishedFlag>>

\* Not in the middle, "to avoid clashes on set-associative caches".
Mid(f) == f.lo + (9 * (f.hi - f.lo + 1)) \div 16
RightJob(f) == <<Mid(f), f.hi>>

Init ==
    /\ D!DequeInit
    /\ stack = [w \in Worker |-> <<IF w = Main THEN Frame("main", Start, End, "call")
                                               ELSE Frame("worker", 0, 0, "nap")>>]
    /\ done = {}
    /\ hits = [i \in Start .. End - 1 |-> 0]
    /\ \E m \in Modes : granularity = m[1] /\ conservative = m[2]
    /\ finishedFlag = FALSE

Hit(lo, hi) == hits' = [i \in DOMAIN hits |-> hits[i] + IF lo <= i /\ i < hi THEN 1 ELSE 0]

-----------------------------------------------------------------------------
(* parallel_for and parfor: short loops are run by the caller; with no     *)
(* granularity given, the first iterations are run to measure one.         *)

CallInline ==
    /\ In(Main, "main", "call")
    /\ (Start + 1 = End \/ (Start <= End /\ End - Start <= granularity) \/ End <= Start)
    /\ Hit(Start, End) /\ Become(Main, At(Main, "returned"))
    /\ KeepReg /\ UNCHANGED <<done, granularity, conservative, finishedFlag>>

CallParfor ==
    /\ In(Main, "main", "call")
    /\ Start + 1 < End /\ End - Start > granularity
    /\ \E d \in (IF granularity = 0 THEN Measured ELSE {0}) :
         LET run  == IF d < End - Start THEN d ELSE End - Start
             per  == (End - Start) \div (128 * Cardinality(Worker))
         IN  /\ granularity' = IF granularity > 0 THEN granularity
                               ELSE IF run > per THEN run ELSE per
             /\ Hit(Start, Start + run)
             /\ Become(Main, <<Frame("for", Start + run, End, "enter")>> \o At(Main, "returned"))
    /\ KeepReg /\ UNCHANGED <<done, conservative, finishedFlag>>

ForRun(w) ==
    /\ In(w, "for", "enter") /\ Top(w).hi - Top(w).lo <= granularity
    /\ Hit(Top(w).lo, Top(w).hi) /\ Become(w, Under(w))
    /\ KeepReg /\ UNCHANGED <<done, granularity, conservative, finishedFlag>>

(* pardo: push the right half, run the left half, take the right half back *)
(* or wait until whoever took it has finished it.                          *)
Fork(w) ==
    /\ In(w, "for", "enter") /\ Top(w).hi - Top(w).lo > granularity
    /\ D!PushStore(w, RightJob(Top(w)))
    /\ done' = done \ {RightJob(Top(w))}
    /\ Become(w, <<[Top(w) EXCEPT !.op = "do", !.at = "spawn"]>> \o Under(w))
    /\ UNCHANGED <<hits, granularity, conservative, finishedFlag>>

RunLeft(w) ==
    /\ Answered(w, "do", "spawn")
    /\ Consume(w) /\ KeepDeques
    /\ Become(w, <<Frame("for", Top(w).lo, Mid(Top(w)), "enter")>> \o At(w, "own"))
    /\ KeepRest

PopOwn(w) ==
    /\ In(w, "do", "own")
    /\ D!BottomLower(w) /\ UNCHANGED stack /\ KeepRest

RunRight(w) ==
    /\ Answered(w, "do", "own") /\ reg[w].job # NoJob
    /\ Consume(w) /\ KeepDeques
    /\ Become(w, <<Frame("for", Mid(Top(w)), Top(w).hi, "enter")>> \o At(w, "joined"))
    /\ KeepRest

RightTakenNoWait(w) ==          \* mutant: return without waiting for the thief
    /\ Answered(w, "do", "own") /\ reg[w].job = NoJob
    /\ Consume(w) /\ KeepDeques
    /\ Become(w, At(w, "joined")) /\ KeepRest

RightTaken(w) ==
    /\ Answered(w, "do", "own") /\ reg[w].job = NoJob
    /\ Consume(w) /\ KeepDeques
    /\ Become(w, At(w, "seek")) /\ KeepRest

Join(w) ==
    /\ In(w, "do", "joined")
    /\ Become(w, Under(w)) /\ KeepReg /\ KeepRest

-----------------------------------------------------------------------------
(* do_work_until, get_job, steal_job and the loop of worker(): a pardo     *)
(* waits for its right half, an idle worker for the end of the program.    *)

BreakEarly(w) == IF Top(w).op = "do" THEN RightJob(Top(w)) \in done ELSE finishedFlag

StopSeeking(w) ==
    /\ In(w, Top(w).op, "seek") \/ In(w, Top(w).op, "steal")
    /\ BreakEarly(w)
    /\ Become(w, At(w, IF Top(w).op = "do" THEN "joined" ELSE "gone"))
    /\ KeepReg /\ KeepRest

SeekOwn(w) ==
    /\ In(w, Top(w).op, "seek") /\ ~BreakEarly(w)
    /\ Top(w).op = "do" => ~conservative      \* conservative: only yield
    /\ D!BottomLower(w) /\ Become(w, At(w, "popped")) /\ KeepRest

TrySteal(w) ==
    /\ In(w, Top(w).op, "steal") /\ ~BreakEarly(w)
    /\ \E v \in Worker \ {w} : D!TopReadAge(w, v)    \* its own deque is empty now
    /\ Become(w, At(w, "stole")) /\ KeepRest

NothingFound(w) ==
    /\ Answered(w, Top(w).op, "popped") \/ Answered(w, Top(w).op, "stole")
    /\ reg[w].job = NoJob
    /\ Consume(w) /\ KeepDeques /\ Become(w, At(w, "steal")) /\ KeepRest

RunJob(w) ==
    /\ Answered(w, Top(w).op, "popped") \/ Answered(w, Top(w).op, "stole")
    /\ reg[w].job # NoJob
    /\ Consume(w) /\ KeepDeques
    /\ LET j == reg[w].job IN
       Become(w, <<Frame("for", j[1], j[2], "enter"), Frame("job", j[1], j[2], "finish")>>
                   \o At(w, "seek"))
    /\ KeepRest

FinishJobSilently(w) ==         \* mutant: done is never set
    /\ In(w, "job", "finish")
    /\ Become(w, Under(w)) /\ KeepReg /\ KeepRest

FinishJob(w) ==
    /\ In(w, "job", "finish")
    /\ done' = done \cup {<<Top(w).lo, Top(w).hi>>}
    /\ Become(w, Under(w))
    /\ KeepReg /\ UNCHANGED <<hits, granularity, conservative, finishedFlag>>

-----------------------------------------------------------------------------
(* Elastic parallelism.  A worker that found nothing within the timeout    *)
(* gives up its place among the awake workers (nap), reads                 *)
(* wake_up_counter (drowsy) and blocks unless the counter has moved on     *)
(* (asleep); "stale" is asleep with a counter that has moved on.           *)

Asleep == {"drowsy", "set", "asleep", "stale", "woken"}
NumAwake == Cardinality({w \in Worker : Top(w).at \notin Asleep})

TimeOut(w) ==
    /\ In(w, "worker", "steal") /\ ~finishedFlag
    /\ Become(w, At(w, "nap")) /\ KeepReg /\ KeepRest

SleepStep(w, from, to) ==
    /\ In(w, "worker", from)
    /\ Become(w, At(w, to)) /\ KeepReg /\ KeepRest

GoToSleep(w) ==
    \/ SleepStep(w, "nap", "drowsy")        \* num_awake_workers.fetch_sub
    \/ SleepStep(w, "drowsy", "set")        \* wake_up_counter.load
    \/ SleepStep(w, "set", "asleep")        \* the counter is unchanged: block

WakeUp(w) == SleepStep(w, "woken", "seek")  \* num_awake_workers.fetch_add

\* wake_up_counter.fetch_add: who has read it will not block, or has the
\* value moved away under its feet.
Bumped(v) ==
    IF Top(v).at = "set" THEN At(v, "woken")
    ELSE IF Top(v).at = "asleep" THEN At(v, "stale") ELSE stack[v]

\* A notified sleeper returns only if the counter moved on.
Notified(v) == IF Top(v).at = "stale" THEN At(v, "woken") ELSE stack[v]

Sleepers == {v \in Worker : Top(v).at \in {"asleep", "stale"}}

WakeOneWorker(w) ==
    /\ reg[w].at = "wake"
    /\ IF NumAwake < Cardinality(Worker)
       THEN /\ stack' = [v \in Worker |-> Bumped(v)]
            /\ reg' = [reg EXCEPT ![w].at = "notify"]
       ELSE UNCHANGED stack /\ reg' = [reg EXCEPT ![w].at = "returned"]
    /\ KeepDeques /\ KeepRest

NotifyOne(w) ==
    /\ reg[w].at = "notify"
    /\ \E some \in SUBSET Sleepers : 
         /\ some = {} => Sleepers = {}
         /\ stack' = [v \in Worker |-> IF v \in some THEN Notified(v) ELSE stack[v]]
    /\ reg' = [reg EXCEPT ![w].at = "returned"]
    /\ KeepDeques /\ KeepRest

-----------------------------------------------------------------------------
(* ~scheduler: "we must spam wake all workers until they finish in case    *)
(* any of them are just about to fall asleep".                             *)

Gone == {w \in Worker : Top(w).at = "gone"}

Shutdown ==
    /\ In(Main, "main", "returned")
    /\ finishedFlag' = TRUE
    /\ Become(Main, At(Main, "spam"))
    /\ KeepReg /\ UNCHANGED <<done, hits, granularity, conservative>>

SpamWake ==
    /\ In(Main, "main", "spam")
    /\ Cardinality(Gone) < Cardinality(Worker) - 1
    /\ NumAwake < Cardinality(Worker)
    /\ stack' = [v \in Worker |-> IF v = Main THEN At(v, "notify") ELSE Bumped(v)]
    /\ KeepReg /\ KeepRest

SpamNotify ==
    /\ In(Main, "main", "notify")
    /\ stack' = [v \in Worker |-> IF v = Main THEN At(v, "spam") ELSE Notified(v)]
    /\ KeepReg /\ KeepRest

JoinThreads ==
    /\ In(Main, "main", "spam")
    /\ Cardinality(Gone) = Cardinality(Worker) - 1
    /\ Become(Main, At(Main, "end")) /\ KeepReg /\ KeepRest

-----------------------------------------------------------------------------
WorkerStep(w) ==
    \/ (D!DequeStep(w) /\ UNCHANGED control)
    \/ ForRun(w) \/ Fork(w) \/ RunLeft(w) \/ PopOwn(w) \/ RunRight(w)
    \/ RightTaken(w) \/ Join(w)
    \/ StopSeeking(w) \/ SeekOwn(w) \/ TrySteal(w) \/ NothingFound(w)
    \/ RunJob(w) \/ FinishJob(w)
    \/ TimeOut(w) \/ GoToSleep(w) \/ WakeUp(w) \/ WakeOneWorker(w) \/ NotifyOne(w)

MainStep == CallInline \/ CallParfor \/ Shutdown \/ SpamWake \/ SpamNotify \/ JoinThreads

Ended == Top(Main).at = "end"

Next ==
    \/ MainStep
    \/ \E w \in Worker : WorkerStep(w)
    \/ (Ended /\ UNCHANGED vars)

Fairness == WF_vars(MainStep) /\ \A w \in Worker : WF_vars(WorkerStep(w))

Spec == Init /\ [][Next]_vars /\ Fairness

-----------------------------------------------------------------------------
Pardos == {"spawn", "own", "seek", "popped", "steal", "stole", "joined"}
Live(j) == \E w \in Worker : \E k \in DOMAIN stack[w] :
             stack[w][k].op = "do" /\ RightJob(stack[w][k]) = j

TypeOK ==
    /\ bot \in [Worker -> 0 .. QSize - 1] /\ DOMAIN age = Worker
    /\ \A w \in Worker : age[w] \in D!Age /\ age[w].top < QSize
    /\ deq \in [Worker -> [0 .. QSize - 1 -> Ranges \cup {NoJob}]]
    /\ done \subseteq Ranges /\ finishedFlag \in BOOLEAN /\ granularity \in Nat
    /\ \A w \in Worker : \A k \in DOMAIN stack[w] :
         LET f == stack[w][k] IN
         /\ f.op \in {"main", "worker", "for", "do", "job"}
         /\ f.op = "do" => f.at \in Pardos /\ f.lo < Mid(f) /\ Mid(f) < f.hi

(* pardo asserts that the job it takes back is the one it pushed: whatever *)
(* the left half pushed has been taken again by then.                      *)
OwnJobIsRight ==
    /\ TypeOK
    /\ \A w \in Worker : Answered(w, "do", "own") =>
                           reg[w].job \in {NoJob, RightJob(Top(w))}

(* A job lives on the stack of the pardo that forked it.  Whoever is       *)
(* running one, or about to, can still reach it: pardo does not return,    *)
(* and the frame does not go, before the last access to it.                *)
NoDanglingJob ==
    \A w \in Worker :
       /\ \A k \in DOMAIN stack[w] :
            stack[w][k].op = "job" => Live(<<stack[w][k].lo, stack[w][k].hi>>)
       /\ reg[w].at \in {"wake", "notify", "returned"} /\ reg[w].job # NoJob
            => Live(reg[w].job)

Promise == INSTANCE ParallelFor
             WITH First <- Start, Last <- End, calls <- hits,
                  returned <- finishedFlag

(* The whole scheduler, deques and stealing included, calls the loop body  *)
(* exactly once per index, and only then does the caller of parallel_for   *)
(* go on (here: to shut the scheduler down).                               *)
ImplementsParallelFor == Promise!Spec

(* The loop ends and every thread the scheduler started ends, however they *)
(* sleep, steal and wake: shutdown() can join them.                        *)
ShutsDown == <>Ended
=============================================================================
