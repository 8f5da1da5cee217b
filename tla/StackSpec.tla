----------------------------- MODULE StackSpec -----------------------------
(***************************************************************************)
(* What hazptr_stack promises: a linearizable stack.  out[t] is what the   *)
(* last pop of thread t returned.                                          *)
(***************************************************************************)
EXTENDS Sequences

CONSTANTS Thread, Value, Nothing

VARIABLES items, out

Init == items = <<>> /\ out = [t \in Thread |-> Nothing]

Push(v) == items' = <<v>> \o items /\ UNCHANGED out

Pop(t) ==
    /\ items # <<>>
    /\ out' = [out EXCEPT ![t] = Head(items)]
    /\ items' = Tail(items)

PopEmpty(t) == items = <<>> /\ out' = [out EXCEPT ![t] = Nothing] /\ UNCHANGED items

Next ==
    \/ \E v \in Value : Push(v)
    \/ \E t \in Thread : Pop(t) \/ PopEmpty(t)

Spec == Init /\ [][Next]_<<items, out>>
=============================================================================
