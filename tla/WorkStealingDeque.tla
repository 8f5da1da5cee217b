------------------------- MODULE WorkStealingDeque -------------------------
(***************************************************************************)
(* The per-worker job deque of ParlayLib's scheduler                       *)
(* (src/parlay/internal/work_stealing_deque.h, after Arora, Blumofe and    *)
(* Plaxton).  The owner pushes and pops at bot, any other worker takes     *)
(* from top with a compare-and-swap on the pair age = (tag, top).  Every   *)
(* atomic access another worker could come between is a step; reg[w] holds *)
(* the local variables of the operation worker w is in.                    *)
(***************************************************************************)
EXTENDS Naturals

CONSTANTS Worker, Job, NoJob,
          QSize                 \* q_size, 1000 in the code

DequeAssumption == NoJob \notin Job /\ QSize \in Nat \ {0}

VARIABLES bot, age, deq, reg

dequeVars == <<bot, age, deq, reg>>

Age == [tag : Nat, top : Nat]
Idle == [at |-> "idle"]
Returned(job) == [at |-> "returned", job |-> job]
Goto(w, r) == reg' = [reg EXCEPT ![w] = r]

DequeInit ==
    /\ bot = [w \in Worker |-> 0]
    /\ age = [w \in Worker |-> [tag |-> 0, top |-> 0]]
    /\ deq = [w \in Worker |-> [i \in 0 .. QSize - 1 |-> NoJob]]
    /\ reg = [w \in Worker |-> Idle]

(* push_bottom: the slot is written before bot makes it visible; a push    *)
(* that would fill the deque aborts the program, so there is no such step. *)
PushStore(w, job) ==
    /\ reg[w] = Idle /\ bot[w] + 1 < QSize
    /\ deq' = [deq EXCEPT ![w][bot[w]] = job]
    /\ Goto(w, [at |-> "pushed"])
    /\ UNCHANGED <<bot, age>>

PushPublish(w) ==
    /\ reg[w].at = "pushed"
    /\ bot' = [bot EXCEPT ![w] = @ + 1]
    /\ Goto(w, [at |-> IF bot[w] = 0 THEN "wake" ELSE "returned", job |-> NoJob])
    /\ UNCHANGED <<age, deq>>

(* pop_top by w on the deque of v: age, bot and the slot are read one by   *)
(* one; the swap succeeds only if age is still what was read first.        *)
TopReadAge(w, v) ==
    /\ reg[w] = Idle
    /\ Goto(w, [at |-> "top1", from |-> v, old |-> age[v]])
    /\ UNCHANGED <<bot, age, deq>>

TopReadBot(w) ==
    /\ reg[w].at = "top1"
    /\ LET r == reg[w] IN
       Goto(w, IF bot[r.from] > r.old.top
               THEN [at |-> "top2", from |-> r.from, old |-> r.old, bot |-> bot[r.from]]
               ELSE Returned(NoJob))
    /\ UNCHANGED <<bot, age, deq>>

TopReadSlot(w) ==
    /\ reg[w].at = "top2"
    /\ LET r == reg[w] IN
       Goto(w, [at |-> "top3", from |-> r.from, old |-> r.old, bot |-> r.bot,
                job |-> deq[r.from][r.old.top]])
    /\ UNCHANGED <<bot, age, deq>>

TopSwap(w) ==
    /\ reg[w].at = "top3"
    /\ LET r == reg[w]
           won == age[r.from] = r.old
       IN  /\ age' = IF won THEN [age EXCEPT ![r.from].top = @ + 1] ELSE age
           /\ Goto(w, [at  |-> IF r.bot = r.old.top + 1 THEN "returned" ELSE "wake",
                       job |-> IF won THEN r.job ELSE NoJob])
    /\ UNCHANGED <<bot, deq>>

(* pop_bottom: bot is lowered first; only when the job taken may be the    *)
(* last does the owner reset the deque and compete for it.                 *)
BottomLower(w) ==
    /\ reg[w] = Idle
    /\ IF bot[w] = 0
       THEN /\ Goto(w, Returned(NoJob))
            /\ UNCHANGED bot
       ELSE /\ bot' = [bot EXCEPT ![w] = @ - 1]
            /\ Goto(w, [at |-> "bottom1"])
    /\ UNCHANGED <<age, deq>>

BottomReadAgeStale(w) ==        \* mutant: lowered twice
    /\ reg[w].at = "bottom1"
    /\ Goto(w, IF bot[w] > age[w].top
               THEN Returned(deq[w][bot[w] - 1])
               ELSE [at |-> "bottom2", old |-> age[w], bot |-> bot[w]])
    /\ UNCHANGED <<bot, age, deq>>

BottomReadAge(w) ==
    /\ reg[w].at = "bottom1"
    /\ Goto(w, IF bot[w] > age[w].top
               THEN Returned(deq[w][bot[w]])
               ELSE [at |-> "bottom2", old |-> age[w], bot |-> bot[w]])
    /\ UNCHANGED <<bot, age, deq>>

BottomReset(w) ==
    /\ reg[w].at = "bottom2"
    /\ bot' = [bot EXCEPT ![w] = 0]
    /\ Goto(w, [reg[w] EXCEPT !.at = "bottom3"])
    /\ UNCHANGED <<age, deq>>

RenewedSameTag(old) == [tag |-> old.tag, top |-> 0]     \* mutant: no new tag
Renewed(old) == [tag |-> old.tag + 1, top |-> 0]

BottomSwap(w) ==
    /\ reg[w].at = "bottom3"
    /\ LET r == reg[w] IN
       IF r.bot = r.old.top /\ age[w] = r.old
       THEN /\ age' = [age EXCEPT ![w] = Renewed(r.old)]
            /\ Goto(w, Returned(deq[w][r.bot]))
       ELSE /\ UNCHANGED age
            /\ Goto(w, [reg[w] EXCEPT !.at = "bottom4"])
    /\ UNCHANGED <<bot, deq>>

BottomGiveUp(w) ==
    /\ reg[w].at = "bottom4"
    /\ age' = [age EXCEPT ![w] = Renewed(reg[w].old)]
    /\ Goto(w, Returned(NoJob))
    /\ UNCHANGED <<bot, deq>>

DequeStep(w) ==
    \/ PushPublish(w)
    \/ TopReadBot(w) \/ TopReadSlot(w) \/ TopSwap(w)
    \/ BottomReadAge(w) \/ BottomReset(w) \/ BottomSwap(w) \/ BottomGiveUp(w)
=============================================================================
